---- MODULE Spec2Model ----
(***************************************************************************)
(* The PostgreSQL-backed event bus of pkg/events (watermill.go), the       *)
(* transactional outbox used by ItemRepository.Save, and the Forwarder     *)
(* that relays outbox envelopes to their real topics.                      *)
(*                                                                         *)
(* The store is the shared database: one message table per topic, one      *)
(* acknowledged offset and one row lock per (topic, consumer group).       *)
(* Every subscription is two goroutines: the SQL subscriber, which claims  *)
(* a row inside a transaction and waits for Ack/Nack, and the dispatch     *)
(* loop of EventBus.Subscribe, which runs retryWithBackoff.                *)
(***************************************************************************)
EXTENDS Integers, Sequences, FiniteSets, TLC

\* ------------------------------------------------------------- constants
maxRetries == 3
retryBaseDelay == 1
ErrChCap == 100
forwarderTopic == "_forwarder_queue"
TopicItemCreated == "item.created"
forwarderGroup == "forwarder-consumer"

\* ---------------------------------------------------------------- bounds
MaxMsgs == 2
MaxItems == 2
MaxCount == 7
MaxFails == 3
MaxRestarts == 1

\* -------------------------------------------------------------- topology
\* The processes that build an EventBus: the API server, two worker
\* instances of the same service and a worker of another service.
Buses == {"api", "w1", "w2", "audit", "fw"}

\* cfg.ServiceName is any string of the environment (SERVICE_NAME).
ServiceName(b) ==
    CASE b = "audit" -> "audit" [] b = "fw" -> "forwarder" [] OTHER -> "item"

\* A bus whose subscriber group does not depend on the service name.
ConsumerGroupShared(b) == "item-consumer"

ConsumerGroup(b) == ServiceName(b) \o "-consumer"

Topics == {TopicItemCreated, forwarderTopic}

Groups == {ConsumerGroup(b) : b \in Buses} \cup {forwarderGroup}

\* One subscription per worker process (registerSubscribers), and two
\* subscriptions that name the reserved topic: Subscribe takes any topic.
Subs == {1, 2, 3, 4, 5}

SubBus(s) ==
    CASE s = 1 -> "w1" [] s = 2 -> "w2" [] s = 5 -> "fw" [] OTHER -> "audit"

SubTopic(s) == IF s \in {4, 5} THEN forwarderTopic ELSE TopicItemCreated

SubGroup(s) == ConsumerGroup(SubBus(s))

\* A Publish can run between the start of a Save and its publishCreated, so
\* one id more than MaxMsgs can be given out.
Ids == 1..(MaxMsgs + 1)

\* message.Metadata: the keys the repository sets or reads; <<>> is an absent
\* traceparent, 0 an absent event_id / event_version.
NoMeta == [event_id |-> 0, event_version |-> 0, traceparent |-> <<>>]

NoMsg == [id |-> 0, kind |-> "none", dest |-> "none", item |-> 0, meta |-> NoMeta]

VARIABLES
    messages,      \* topic -> sequence of committed message rows
    offsetAcked,   \* <<topic, group>> -> number of rows acknowledged
    claim,         \* <<topic, group>> -> the offsets row is locked by a transaction
    items,         \* committed item rows
    useForwarder,  \* bus -> built by NewEventBusWithForwarder
    nextId,        \* next fresh message uuid
    cancelled,     \* subscription -> its context is cancelled
    lib,           \* subscription -> state of the SQL subscriber goroutine
    loop,          \* subscription -> position of the dispatch loop
    cur,           \* subscription -> message held by the subscriber / loop
    attempt,       \* subscription -> attempt of retryWithBackoff
    calls,         \* subscription -> handler invocations of this delivery
    okAt,          \* subscription -> invocation that first returned nil (0: none)
    ackSig,        \* subscription -> "none" | "ack" | "nack" set by the loop
    errCh,         \* subscription -> errors buffered in the error channel
    last,          \* subscription -> outcome of the last finished delivery
    delivered,     \* subscription -> ids handed to its handler
    invocations,   \* subscription -> invocations of cur over all deliveries
    loopAcked,     \* <<group, id>> the dispatch loop called Ack on
    committed,     \* <<group, id>> whose acknowledgement reached the store
    reclaimed,     \* <<group, id>> claimed again after the loop's Ack
    pubErr,        \* bus -> result of its last Publish ("none" before)
    fails,         \* handler / republish calls that returned an error so far
    tx,            \* the transaction of ItemRepository.Save
    saved,         \* item and error of the last Save that returned
    fwd,           \* bus -> state of its Forwarder
    fwdCur,        \* bus -> envelope held by its Forwarder
    startRes,      \* bus -> result of its last StartForwarder ("none" before)
    rolledBack,    \* ids of messages published in a transaction rolled back
    lostAcks,      \* id -> times a Forwarder stopped after republishing it
    restarts,      \* restarts of the API process so far
    closePc,       \* bus -> position of its Close call ("none" before)
    closeLog,      \* bus -> steps its Close call attempted, in order
    closeRes,      \* bus -> result of its Close call ("none" before)
    timedOut,      \* bus -> the wait of its Close ended by the timeout
    startPc,       \* bus -> position of a StartForwarder call in progress
    delay,         \* subscription -> local delay of retryWithBackoff (seconds)
    waited,        \* subscription -> waits of this delivery, in order
    herr,          \* subscription -> local err: invocation that set it (0: nil)
    retErr,        \* subscription -> what retryWithBackoff last returned
    propagator,    \* the global TextMapPropagator
    origin,        \* id -> the stored or pending message as its producer made it
    msgTrace,      \* subscription -> trace id restored into msgCtx (0: none)
    pubCall,       \* bus -> store writes and returned error of its last Publish
    hPc,           \* position of the health request in progress
    hResp,         \* healthResponse being built
    hPings,        \* Ping calls of this request: <<dependency, succeeded>>
    hOut,          \* last answer written: status code, body and its Ping calls
    starts,        \* caller -> its concurrent StartForwarder call on the API bus
    svc            \* ItemService, its Redis cache and the worker's shutdown

storeVars == <<messages, offsetAcked, claim, items>>
envVars == <<useForwarder, nextId, pubErr, fails>>
outboxVars == <<tx, saved, fwd, fwdCur, startRes, rolledBack, lostAcks, restarts>>
lifeVars == <<closePc, closeLog, closeRes, timedOut, startPc>>
retryVars == <<delay, waited, herr, retErr>>
traceVars == <<propagator, origin, msgTrace, pubCall>>
healthVars == <<hPc, hResp, hPings, hOut>>
appVars == <<starts, svc>>
subVars == <<cancelled, lib, loop, cur, attempt, calls, okAt, ackSig, errCh, last,
             delivered, invocations, loopAcked, committed, reclaimed>>
vars == <<messages, offsetAcked, claim, items, useForwarder, nextId,
          cancelled, lib, loop, cur, attempt, calls, okAt, ackSig, errCh, last,
          delivered, invocations, loopAcked, committed, reclaimed, pubErr,
          fails, tx, saved, fwd, fwdCur, startRes, rolledBack, lostAcks,
          restarts, closePc, closeLog, closeRes, timedOut, startPc,
          delay, waited, herr, retErr, propagator,
          origin, msgTrace, pubCall, hPc, hResp, hPings, hOut, starts, svc>>

NoErr == [kind |-> "none", wraps |-> 0, count |-> 0]

NoOrigin == [via |-> "none", meta |-> NoMeta, trace |-> 0, item |-> 0]

NoCall == [writes |-> 0, err |-> <<>>]

NoResp == [status |-> "none", database |-> "none", redis |-> "none",
           event_bus |-> "none"]

NoOut == [code |-> 0, body |-> NoResp, pings |-> <<>>]

\* Goroutines that call StartForwarder on the API bus at the same time.
Callers == {1, 2}

\* One call: its position, the goroutine of fwd.Run it started and what it
\* returned.
NoStart == [pc |-> "none", run |-> "none", res |-> "none"]

\* The item service: the Redis hash of the item and the client's state; the
\* GetByID and the Delete in progress; the detached cache write of GetByID;
\* and whether the worker's main is past its wait for the signal.
NoSvc == [cache |-> FALSE, redis |-> "open", get |-> "idle", after |-> FALSE,
          got |-> "none", stale |-> FALSE, warm |-> FALSE, del |-> "idle",
          deleted |-> FALSE, quit |-> FALSE]

NoTx == [pc |-> "idle", item |-> 0, trace |-> 0, rows |-> <<>>, pub |-> {},
         err |-> "none"]

NoLast == [id |-> 0, calls |-> 0, attempt |-> 0, result |-> "none",
           fin |-> "none", sent |-> FALSE]

Init ==
    /\ messages = [t \in Topics |-> <<>>]
    /\ offsetAcked = [k \in Topics \X Groups |-> 0]
    /\ claim = [k \in Topics \X Groups |-> FALSE]
    /\ items = {}
    /\ \E f \in BOOLEAN : useForwarder = [b \in Buses |-> b = "api" /\ f]
    /\ nextId = 1
    /\ cancelled = [s \in Subs |-> FALSE]
    /\ lib = [s \in Subs |-> "none"]
    /\ loop = [s \in Subs |-> "none"]
    /\ cur = [s \in Subs |-> NoMsg]
    /\ attempt = [s \in Subs |-> 0]
    /\ calls = [s \in Subs |-> 0]
    /\ okAt = [s \in Subs |-> 0]
    /\ ackSig = [s \in Subs |-> "none"]
    /\ errCh = [s \in Subs |-> 0]
    /\ last = [s \in Subs |-> NoLast]
    /\ delivered = [s \in Subs |-> {}]
    /\ invocations = [s \in Subs |-> 0]
    /\ loopAcked = {}
    /\ committed = {}
    /\ reclaimed = {}
    /\ pubErr = [b \in Buses |-> "none"]
    /\ fails = 0
    /\ tx = NoTx
    /\ saved = [item |-> 0, err |-> "none"]
    /\ fwd = [b \in Buses |-> "off"]
    /\ fwdCur = [b \in Buses |-> NoMsg]
    /\ startRes = [b \in Buses |-> "none"]
    /\ rolledBack = {}
    /\ lostAcks = [id \in Ids |-> 0]
    /\ restarts = 0
    /\ closePc = [b \in Buses |-> "none"]
    /\ closeLog = [b \in Buses |-> <<>>]
    /\ closeRes = [b \in Buses |-> "none"]
    /\ timedOut = [b \in Buses |-> FALSE]
    /\ startPc = [b \in Buses |-> "none"]
    /\ delay = [s \in Subs |-> 0]
    /\ waited = [s \in Subs |-> <<>>]
    /\ herr = [s \in Subs |-> 0]
    /\ retErr = [s \in Subs |-> NoErr]
    /\ propagator = "noop"
    /\ origin = [id \in Ids |-> NoOrigin]
    /\ msgTrace = [s \in Subs |-> 0]
    /\ pubCall = [b \in Buses |-> NoCall]
    /\ hPc = "idle"
    /\ hResp = NoResp
    /\ hPings = <<>>
    /\ hOut = NoOut
    /\ starts = [c \in Callers |-> NoStart]
    /\ svc = NoSvc

Key(s) == <<SubTopic(s), SubGroup(s)>>

Min(a, b) == IF a < b THEN a ELSE b

\* ------------------------------------------------------------- publisher
\* newEventBus: the bus publisher is the SQL publisher on q.db, wrapped by
\* forwarder.NewPublisher in forwarder mode.
BusPublisher(b) == [bound |-> "db", wrap |-> useForwarder[b]]

\* A transactional publisher that writes through q.db instead of the tx.
NewTxPublisherOnDb(b) == [bound |-> "db", wrap |-> useForwarder[b]]

\* A transactional publisher that is not wrapped in forwarder mode.
NewTxPublisherUnwrapped(b) == [bound |-> "tx", wrap |-> FALSE]

\* NewTxPublisher: the SQL publisher on the caller's tx, wrapped by
\* forwarder.NewPublisher in forwarder mode.
NewTxPublisher(b) == [bound |-> "tx", wrap |-> useForwarder[b]]

\* Publisher.Publish(topic, msg): a wrapped publisher envelopes the message
\* and stores it on forwarderTopic instead of the topic asked for.
PublishRow(pub, t, id, it) ==
    IF pub.wrap
    THEN [topic |-> forwarderTopic,
          msg |-> [id |-> id, kind |-> "envelope", dest |-> t, item |-> it,
                   meta |-> NoMeta]]
    ELSE [topic |-> t,
          msg |-> [id |-> id, kind |-> "plain", dest |-> t, item |-> it,
                   meta |-> NoMeta]]

\* The message passed to Publisher.Publish carries its metadata into the row
\* (inside the envelope when the publisher wraps).
Carrying(row, meta) == [row EXCEPT !.msg.meta = meta]

\* Trace ids of the spans a caller can be in; 0 stands for no span.
Traces == {1, 2}

NoTrace == 0

\* propagation.TraceContext: the traceparent value "00-<trace id>-...-01".
Format(tr) == <<"00", tr, "01">>

Parse(v) == IF Len(v) = 3 /\ v[1] = "00" /\ v[3] = "01" THEN v[2] ELSE 0

\* A Publish that replaces the metadata of the message by the carrier.
InjectReplacesAll(meta, tr) ==
    IF propagator = "tracecontext" /\ tr # 0
    THEN [NoMeta EXCEPT !.traceparent = Format(tr)]
    ELSE meta

\* otel.GetTextMapPropagator().Inject(ctx, carrier) followed by
\* msg.Metadata.Set(k, v) for every entry of the carrier: the default global
\* propagator injects nothing, TraceContext sets traceparent when the context
\* holds a valid span.
Inject(meta, tr) ==
    IF propagator = "tracecontext" /\ tr # 0
    THEN [meta EXCEPT !.traceparent = Format(tr)]
    ELSE meta

\* propagator.Extract(ctx, carrier) on a context without a span: the trace id
\* of the remote span context, 0 when none is restored.
Extract(meta) ==
    IF propagator = "tracecontext" THEN Parse(meta.traceparent) ELSE 0

\* publishCreated: a new message with event_id and event_version set.
CreatedMeta(id) == [event_id |-> id, event_version |-> 1, traceparent |-> <<>>]

\* What EventBus.Publish returns on a storage error:
\* fmt.Errorf("events: publish to %s: %w", topic, err).
PublishErr(t) == <<"events: publish to", t, "store error">>

Stored(row) ==
    [messages EXCEPT ![row.topic] = Append(@, row.msg)]

\* A Publish that writes a second time after a storage error.
PublishRetries(b, t, pm, tr) ==
    /\ nextId <= MaxMsgs
    /\ nextId' = nextId + 1
    /\ \E ok \in BOOLEAN :
         IF ok
         THEN /\ messages' = Stored(Carrying(PublishRow(BusPublisher(b), t, nextId, 0),
                                             Inject(pm, tr)))
              /\ pubErr' = [pubErr EXCEPT ![b] = "nil"]
              /\ pubCall' = [pubCall EXCEPT ![b] = [writes |-> 1, err |-> <<>>]]
              /\ origin' = [origin EXCEPT ![nextId] =
                               [via |-> "publish", meta |-> pm, trace |-> tr,
                                item |-> 0]]
         ELSE /\ messages' = Stored(Carrying(PublishRow(BusPublisher(b), t, nextId, 0),
                                             Inject(pm, tr)))
              /\ pubErr' = [pubErr EXCEPT ![b] = "nil"]
              /\ pubCall' = [pubCall EXCEPT ![b] = [writes |-> 2, err |-> <<>>]]
              /\ origin' = [origin EXCEPT ![nextId] =
                               [via |-> "publish", meta |-> pm, trace |-> tr,
                                item |-> 0]]
    /\ UNCHANGED <<offsetAcked, claim, items, useForwarder, fails>>
    /\ UNCHANGED <<subVars, outboxVars>>
    /\ UNCHANGED lifeVars
    /\ UNCHANGED <<propagator, msgTrace>>
    /\ UNCHANGED <<retryVars, healthVars, appVars>>

\* EventBus.Publish of a message with metadata pm under a context whose span
\* has trace tr (0: no span): the trace context is set on the message, then
\* one write through q.publisher; a storage error is returned wrapped and
\* nothing is stored.
Publish(b, t, pm, tr) ==
    /\ nextId <= MaxMsgs
    /\ nextId' = nextId + 1
    /\ \E ok \in BOOLEAN :
         IF ok
         THEN /\ messages' = Stored(Carrying(PublishRow(BusPublisher(b), t, nextId, 0),
                                             Inject(pm, tr)))
              /\ pubErr' = [pubErr EXCEPT ![b] = "nil"]
              /\ pubCall' = [pubCall EXCEPT ![b] = [writes |-> 1, err |-> <<>>]]
              /\ origin' = [origin EXCEPT ![nextId] =
                               [via |-> "publish", meta |-> pm, trace |-> tr,
                                item |-> 0]]
         ELSE /\ messages' = messages
              /\ pubErr' = [pubErr EXCEPT ![b] = "error"]
              /\ pubCall' = [pubCall EXCEPT ![b] =
                                [writes |-> 1, err |-> PublishErr(t)]]
              /\ origin' = origin
    /\ UNCHANGED <<offsetAcked, claim, items, useForwarder, fails>>
    /\ UNCHANGED <<subVars, outboxVars>>
    /\ UNCHANGED lifeVars
    /\ UNCHANGED <<propagator, msgTrace>>
    /\ UNCHANGED <<retryVars, healthVars, appVars>>

\* ------------------------------------------------------- trace context
\* otel.SetTextMapPropagator(propagation.TraceContext{}): the global
\* propagator, which is the no-op default until this call.
SetTextMapPropagator ==
    /\ propagator = "noop"
    /\ propagator' = "tracecontext"
    /\ UNCHANGED <<origin, msgTrace, pubCall>>
    /\ UNCHANGED <<storeVars, envVars, subVars, outboxVars>>
    /\ UNCHANGED lifeVars
    /\ UNCHANGED <<retryVars, healthVars, appVars>>

\* Metadata a producer sets on a message before it calls Publish: nothing,
\* an event_id, or an event_id and a traceparent (a message received under
\* trace 1 and published again).
ProducerMetas ==
    {NoMeta,
     [NoMeta EXCEPT !.event_id = 1],
     [NoMeta EXCEPT !.event_id = 1, !.traceparent = Format(1)]}

\* ---------------------------------------------------------- subscription
\* EventBus.Subscribe: q.subscriber.Subscribe starts the SQL subscriber for
\* (topic, ConsumerGroup), then the dispatch goroutine ranges over its channel.
Subscribe(s) ==
    /\ lib[s] = "none"
    /\ lib' = [lib EXCEPT ![s] = "idle"]
    /\ loop' = [loop EXCEPT ![s] = "recv"]
    /\ UNCHANGED <<cancelled, cur, attempt, calls, okAt, ackSig, errCh, last,
                   delivered, invocations, loopAcked, committed, reclaimed>>
    /\ UNCHANGED <<storeVars, envVars, outboxVars>>
    /\ UNCHANGED lifeVars
    /\ UNCHANGED <<retryVars, traceVars, healthVars, appVars>>

\* A cancellation that aborts the handler invocation in progress.
CancelAbortsHandler(s) ==
    /\ lib[s] # "none"
    /\ ~cancelled[s]
    /\ cancelled' = [cancelled EXCEPT ![s] = TRUE]
    /\ loop' = [loop EXCEPT ![s] = IF @ = "running" THEN "recv" ELSE @]
    /\ UNCHANGED <<lib, cur, attempt, calls, okAt, ackSig, errCh, last,
                   delivered, invocations, loopAcked, committed, reclaimed>>
    /\ UNCHANGED <<storeVars, envVars, outboxVars>>
    /\ UNCHANGED lifeVars
    /\ UNCHANGED <<retryVars, traceVars, healthVars, appVars>>

\* The subscription's context is cancelled (shutdown of the process).
Cancel(s) ==
    /\ lib[s] # "none"
    /\ ~cancelled[s]
    /\ cancelled' = [cancelled EXCEPT ![s] = TRUE]
    /\ UNCHANGED <<lib, loop, cur, attempt, calls, okAt, ackSig, errCh, last,
                   delivered, invocations, loopAcked, committed, reclaimed>>
    /\ UNCHANGED <<storeVars, envVars, outboxVars>>
    /\ UNCHANGED lifeVars
    /\ UNCHANGED <<retryVars, traceVars, healthVars, appVars>>

\* A subscriber that selects the next row without locking the offsets row.
LibClaimNoLock(s) ==
    /\ lib[s] = "idle"
    /\ ~cancelled[s]
    /\ offsetAcked[Key(s)] < Len(messages[SubTopic(s)])
    /\ claim' = [claim EXCEPT ![Key(s)] = TRUE]
    /\ cur' = [cur EXCEPT ![s] = messages[SubTopic(s)][offsetAcked[Key(s)] + 1]]
    /\ lib' = [lib EXCEPT ![s] = "claimed"]
    /\ UNCHANGED <<messages, offsetAcked, items, envVars, outboxVars>>
    /\ UNCHANGED <<cancelled, loop, attempt, calls, okAt, ackSig, errCh, last,
                   delivered, invocations, loopAcked, committed, reclaimed>>
    /\ UNCHANGED lifeVars
    /\ UNCHANGED <<retryVars, traceVars, healthVars, appVars>>

\* The SQL subscriber opens a transaction, locks the offsets row of its
\* (topic, group) and selects the first row after the acknowledged offset.
LibClaim(s) ==
    /\ lib[s] = "idle"
    /\ ~cancelled[s]
    /\ ~claim[Key(s)]
    /\ offsetAcked[Key(s)] < Len(messages[SubTopic(s)])
    /\ claim' = [claim EXCEPT ![Key(s)] = TRUE]
    /\ cur' = [cur EXCEPT ![s] = messages[SubTopic(s)][offsetAcked[Key(s)] + 1]]
    /\ lib' = [lib EXCEPT ![s] = "claimed"]
    /\ UNCHANGED <<messages, offsetAcked, items, envVars, outboxVars>>
    /\ UNCHANGED <<cancelled, loop, attempt, calls, okAt, ackSig, errCh, last,
                   delivered, invocations, loopAcked, committed, reclaimed>>
    /\ UNCHANGED lifeVars
    /\ UNCHANGED <<retryVars, traceVars, healthVars, appVars>>

\* The claimed message is handed over the channel; the dispatch loop takes it
\* and enters retryWithBackoff (attempt := 1).
LibSend(s) ==
    /\ lib[s] = "claimed"
    /\ loop[s] = "recv"
    /\ lib' = [lib EXCEPT ![s] = "sent"]
    /\ loop' = [loop EXCEPT ![s] = "call"]
    /\ attempt' = [attempt EXCEPT ![s] = 1]
    /\ calls' = [calls EXCEPT ![s] = 0]
    /\ okAt' = [okAt EXCEPT ![s] = 0]
    /\ ackSig' = [ackSig EXCEPT ![s] = "none"]
    /\ delivered' = [delivered EXCEPT ![s] = @ \cup {cur[s].id}]
    /\ invocations' = [invocations EXCEPT ![s] =
                          IF last[s].id = cur[s].id THEN @ ELSE 0]
    /\ reclaimed' = IF <<SubGroup(s), cur[s].id>> \in loopAcked
                    THEN reclaimed \cup {<<SubGroup(s), cur[s].id>>}
                    ELSE reclaimed
    /\ UNCHANGED <<cancelled, cur, errCh, last, loopAcked, committed>>
    /\ UNCHANGED <<storeVars, envVars, outboxVars>>
    /\ UNCHANGED lifeVars
    /\ delay' = [delay EXCEPT ![s] = retryBaseDelay]
    /\ waited' = [waited EXCEPT ![s] = <<>>]
    /\ herr' = [herr EXCEPT ![s] = 0]
    /\ msgTrace' = [msgTrace EXCEPT ![s] = Extract(cur[s].meta)]
    /\ UNCHANGED <<retErr, propagator, origin, pubCall>>
    /\ UNCHANGED <<healthVars, appVars>>

\* msg.Acked() seen by the SQL subscriber: the offset is advanced and the
\* transaction commits, which frees the row lock.
LibAck(s) ==
    /\ lib[s] = "sent"
    /\ ackSig[s] = "ack"
    /\ offsetAcked' = [offsetAcked EXCEPT ![Key(s)] = @ + 1]
    /\ claim' = [claim EXCEPT ![Key(s)] = FALSE]
    /\ lib' = [lib EXCEPT ![s] = "idle"]
    /\ ackSig' = [ackSig EXCEPT ![s] = "none"]
    /\ committed' = committed \cup {<<SubGroup(s), cur[s].id>>}
    /\ UNCHANGED <<messages, items, envVars, outboxVars>>
    /\ UNCHANGED <<cancelled, loop, cur, attempt, calls, okAt, errCh, last,
                   delivered, invocations, loopAcked, reclaimed>>
    /\ UNCHANGED lifeVars
    /\ UNCHANGED <<retryVars, traceVars, healthVars, appVars>>

\* msg.Nacked() seen by the SQL subscriber: the same row is sent again, the
\* transaction and its lock are kept.
LibNack(s) ==
    /\ lib[s] = "sent"
    /\ ackSig[s] = "nack"
    /\ lib' = [lib EXCEPT ![s] = "claimed"]
    /\ ackSig' = [ackSig EXCEPT ![s] = "none"]
    /\ UNCHANGED <<cancelled, loop, cur, attempt, calls, okAt, errCh, last,
                   delivered, invocations, loopAcked, committed, reclaimed>>
    /\ UNCHANGED <<storeVars, envVars, outboxVars>>
    /\ UNCHANGED lifeVars
    /\ UNCHANGED <<retryVars, traceVars, healthVars, appVars>>

\* A subscriber whose lock on the offsets row outlives its cancellation.
LibCloseKeepsLock(s) ==
    /\ lib[s] \in {"idle", "claimed", "sent"}
    /\ cancelled[s]
    /\ lib' = [lib EXCEPT ![s] = "closed"]
    /\ UNCHANGED <<messages, offsetAcked, claim, items, envVars, outboxVars>>
    /\ UNCHANGED <<cancelled, loop, cur, attempt, calls, okAt, ackSig, errCh, last,
                   delivered, invocations, loopAcked, committed, reclaimed>>
    /\ UNCHANGED lifeVars
    /\ UNCHANGED <<retryVars, traceVars, healthVars, appVars>>

\* ctx.Done() seen by the SQL subscriber: its transaction is rolled back (the
\* claim is released without an acknowledgement) and its channel is closed.
LibClose(s) ==
    /\ lib[s] \in {"idle", "claimed", "sent"}
    /\ cancelled[s]
    /\ lib' = [lib EXCEPT ![s] = "closed"]
    /\ claim' = [claim EXCEPT ![Key(s)] =
                    IF lib[s] \in {"claimed", "sent"} THEN FALSE ELSE @]
    /\ UNCHANGED <<messages, offsetAcked, items, envVars, outboxVars>>
    /\ UNCHANGED <<cancelled, loop, cur, attempt, calls, okAt, ackSig, errCh, last,
                   delivered, invocations, loopAcked, committed, reclaimed>>
    /\ UNCHANGED lifeVars
    /\ UNCHANGED <<retryVars, traceVars, healthVars, appVars>>

\* ---------------------------------------------------------- dispatch loop
\* A dispatch loop that enters the handler again while an invocation runs.
HandlerStartConcurrent(s) ==
    /\ loop[s] \in {"call", "running"}
    /\ loop' = [loop EXCEPT ![s] = "running"]
    /\ calls' = [calls EXCEPT ![s] = Min(@ + 1, MaxCount)]
    /\ invocations' = [invocations EXCEPT ![s] = Min(@ + 1, MaxCount)]
    /\ UNCHANGED <<cancelled, lib, cur, attempt, okAt, ackSig, errCh, last,
                   delivered, loopAcked, committed, reclaimed>>
    /\ UNCHANGED <<storeVars, envVars, outboxVars>>
    /\ UNCHANGED lifeVars
    /\ UNCHANGED <<retryVars, traceVars, healthVars, appVars>>

\* handler(ctx, msg) is entered.
HandlerStart(s) ==
    /\ loop[s] = "call"
    /\ loop' = [loop EXCEPT ![s] = "running"]
    /\ calls' = [calls EXCEPT ![s] = @ + 1]
    /\ invocations' = [invocations EXCEPT ![s] = Min(@ + 1, MaxCount)]
    /\ UNCHANGED <<cancelled, lib, cur, attempt, okAt, ackSig, errCh, last,
                   delivered, loopAcked, committed, reclaimed>>
    /\ UNCHANGED <<storeVars, envVars, outboxVars>>
    /\ UNCHANGED lifeVars
    /\ UNCHANGED <<retryVars, traceVars, healthVars, appVars>>

\* A dispatch loop that calls msg.Ack() whatever retryWithBackoff returned.
FinishAcks(s, result) ==
    [id |-> cur[s].id, calls |-> calls[s], attempt |-> attempt[s],
     result |-> result, fin |-> "ack",
     sent |-> result # "nil" /\ errCh[s] < ErrChCap]

\* What the dispatch loop does with the result of retryWithBackoff: nil is
\* answered by msg.Ack(), an error by msg.Nack() and a non-blocking send on
\* errCh, which drops the error when the channel is full.
Finish(s, result) ==
    [id |-> cur[s].id, calls |-> calls[s], attempt |-> attempt[s],
     result |-> result, fin |-> IF result = "nil" THEN "ack" ELSE "nack",
     sent |-> result # "nil" /\ errCh[s] < ErrChCap]

\* A dispatch loop whose send on errCh blocks while the channel is full.
FinaliseBlockingSend(s, result) ==
    /\ result = "nil" \/ errCh[s] < ErrChCap
    /\ last' = [last EXCEPT ![s] = Finish(s, result)]
    /\ ackSig' = [ackSig EXCEPT ![s] = Finish(s, result).fin]
    /\ errCh' = [errCh EXCEPT ![s] = IF Finish(s, result).sent THEN @ + 1 ELSE @]
    /\ loopAcked' = IF result = "nil"
                    THEN loopAcked \cup {<<SubGroup(s), cur[s].id>>}
                    ELSE loopAcked
    /\ loop' = [loop EXCEPT ![s] = "recv"]

Finalise(s, result) ==
    /\ last' = [last EXCEPT ![s] = Finish(s, result)]
    /\ ackSig' = [ackSig EXCEPT ![s] = Finish(s, result).fin]
    /\ errCh' = [errCh EXCEPT ![s] = IF Finish(s, result).sent THEN @ + 1 ELSE @]
    /\ loopAcked' = IF result = "nil"
                    THEN loopAcked \cup {<<SubGroup(s), cur[s].id>>}
                    ELSE loopAcked
    /\ loop' = [loop EXCEPT ![s] = "recv"]

\* retryWithBackoff returns nil, ctx.Err(), or
\* fmt.Errorf("events: handler failed after %d retries: %w", maxRetries, err).
NilErr == [kind |-> "nil", wraps |-> 0, count |-> 0]

CtxErr == [kind |-> "cancelled", wraps |-> 0, count |-> 0]

Exhausted(e) == [kind |-> "exhausted", wraps |-> e, count |-> maxRetries]

\* A retry loop that keeps the error of the first failed invocation.
HandlerReturnFirstError(s, ok) ==
    /\ loop[s] = "running"
    /\ IF ok
       THEN Finalise(s, "nil")
       ELSE IF attempt[s] < maxRetries
            THEN /\ loop' = [loop EXCEPT ![s] = "wait"]
                 /\ UNCHANGED <<last, ackSig, errCh, loopAcked>>
            ELSE Finalise(s, "exhausted")
    /\ fails' = IF ok THEN fails ELSE Min(fails + 1, MaxFails)
    /\ okAt' = [okAt EXCEPT ![s] = IF ok /\ @ = 0 THEN calls[s] ELSE @]
    /\ UNCHANGED <<cancelled, lib, cur, attempt, calls, delivered,
                   invocations, committed, reclaimed>>
    /\ UNCHANGED <<storeVars, useForwarder, nextId, pubErr, outboxVars>>
    /\ UNCHANGED lifeVars
    /\ herr' = [herr EXCEPT ![s] = IF ok THEN 0 ELSE IF @ # 0 THEN @ ELSE calls[s]]
    /\ retErr' = IF ok
                 THEN [retErr EXCEPT ![s] = NilErr]
                 ELSE IF attempt[s] < maxRetries
                      THEN retErr
                      ELSE [retErr EXCEPT ![s] = Exhausted(herr'[s])]
    /\ UNCHANGED <<delay, waited>>
    /\ UNCHANGED <<traceVars, healthVars, appVars>>

\* A backoff whose delay is not doubled.
BackoffElapsedFixedDelay(s) ==
    /\ loop[s] = "wait"
    /\ ~cancelled[s]
    /\ attempt' = [attempt EXCEPT ![s] = @ + 1]
    /\ loop' = [loop EXCEPT ![s] = "call"]
    /\ UNCHANGED <<cancelled, lib, cur, calls, okAt, ackSig, errCh, last,
                   delivered, invocations, loopAcked, committed, reclaimed>>
    /\ UNCHANGED <<storeVars, envVars, outboxVars>>
    /\ UNCHANGED lifeVars
    /\ waited' = [waited EXCEPT ![s] = Append(@, delay[s])]
    /\ UNCHANGED <<delay, herr, retErr>>
    /\ UNCHANGED <<traceVars, healthVars, appVars>>

\* A retry loop that does not return on the handler's nil.
HandlerReturnRetriesAfterNil(s, ok) ==
    /\ loop[s] = "running"
    /\ IF attempt[s] < maxRetries
       THEN /\ loop' = [loop EXCEPT ![s] = "wait"]
            /\ UNCHANGED <<last, ackSig, errCh, loopAcked>>
       ELSE Finalise(s, IF ok THEN "nil" ELSE "exhausted")
    /\ fails' = IF ok THEN fails ELSE Min(fails + 1, MaxFails)
    /\ okAt' = [okAt EXCEPT ![s] = IF ok /\ @ = 0 THEN calls[s] ELSE @]
    /\ UNCHANGED <<cancelled, lib, cur, attempt, calls, delivered,
                   invocations, committed, reclaimed>>
    /\ UNCHANGED <<storeVars, useForwarder, nextId, pubErr, outboxVars>>
    /\ UNCHANGED lifeVars
    /\ herr' = [herr EXCEPT ![s] = IF ok THEN 0 ELSE calls[s]]
    /\ retErr' = IF attempt[s] < maxRetries
                 THEN retErr
                 ELSE IF ok
                      THEN [retErr EXCEPT ![s] = NilErr]
                      ELSE [retErr EXCEPT ![s] = Exhausted(herr'[s])]
    /\ UNCHANGED <<delay, waited>>
    /\ UNCHANGED <<traceVars, healthVars, appVars>>

\* A retry loop that makes one attempt too many (attempt <= maxRetries + 1).
HandlerReturnOneMore(s, ok) ==
    /\ loop[s] = "running"
    /\ IF ok
       THEN Finalise(s, "nil")
       ELSE IF attempt[s] < maxRetries + 1
            THEN /\ loop' = [loop EXCEPT ![s] = "wait"]
                 /\ UNCHANGED <<last, ackSig, errCh, loopAcked>>
            ELSE Finalise(s, "exhausted")
    /\ fails' = IF ok THEN fails ELSE Min(fails + 1, MaxFails)
    /\ okAt' = [okAt EXCEPT ![s] = IF ok /\ @ = 0 THEN calls[s] ELSE @]
    /\ UNCHANGED <<cancelled, lib, cur, attempt, calls, delivered,
                   invocations, committed, reclaimed>>
    /\ UNCHANGED <<storeVars, useForwarder, nextId, pubErr, outboxVars>>
    /\ UNCHANGED lifeVars
    /\ herr' = [herr EXCEPT ![s] = IF ok THEN 0 ELSE calls[s]]
    /\ retErr' = IF ok
                 THEN [retErr EXCEPT ![s] = NilErr]
                 ELSE IF attempt[s] < maxRetries + 1
                      THEN retErr
                      ELSE [retErr EXCEPT ![s] = Exhausted(herr'[s])]
    /\ UNCHANGED <<delay, waited>>
    /\ UNCHANGED <<traceVars, healthVars, appVars>>

\* The handler returns: nil ends retryWithBackoff; an error leads to the
\* backoff wait while attempt < maxRetries and to the wrapped error after the
\* last attempt.
HandlerReturn(s, ok) ==
    /\ loop[s] = "running"
    /\ IF ok
       THEN Finalise(s, "nil")
       ELSE IF attempt[s] < maxRetries
            THEN /\ loop' = [loop EXCEPT ![s] = "wait"]
                 /\ UNCHANGED <<last, ackSig, errCh, loopAcked>>
            ELSE Finalise(s, "exhausted")
    /\ fails' = IF ok THEN fails ELSE Min(fails + 1, MaxFails)
    /\ okAt' = [okAt EXCEPT ![s] = IF ok /\ @ = 0 THEN calls[s] ELSE @]
    /\ UNCHANGED <<cancelled, lib, cur, attempt, calls, delivered,
                   invocations, committed, reclaimed>>
    /\ UNCHANGED <<storeVars, useForwarder, nextId, pubErr, outboxVars>>
    /\ UNCHANGED lifeVars
    /\ herr' = [herr EXCEPT ![s] = IF ok THEN 0 ELSE calls[s]]
    /\ retErr' = IF ok
                 THEN [retErr EXCEPT ![s] = NilErr]
                 ELSE IF attempt[s] < maxRetries
                      THEN retErr
                      ELSE [retErr EXCEPT ![s] = Exhausted(herr'[s])]
    /\ UNCHANGED <<delay, waited>>
    /\ UNCHANGED <<traceVars, healthVars, appVars>>

\* A backoff wait without the ctx.Done() case.
BackoffElapsedIgnoresCancel(s) ==
    /\ loop[s] = "wait"
    /\ attempt' = [attempt EXCEPT ![s] = @ + 1]
    /\ loop' = [loop EXCEPT ![s] = "call"]
    /\ UNCHANGED <<cancelled, lib, cur, calls, okAt, ackSig, errCh, last,
                   delivered, invocations, loopAcked, committed, reclaimed>>
    /\ UNCHANGED <<storeVars, envVars, outboxVars>>
    /\ UNCHANGED lifeVars
    /\ waited' = [waited EXCEPT ![s] = Append(@, delay[s])]
    /\ delay' = [delay EXCEPT ![s] = @ * 2]
    /\ UNCHANGED <<herr, retErr>>
    /\ UNCHANGED <<traceVars, healthVars, appVars>>

\* select: the timer of time.After(delay) fires while ctx.Done() is not ready
\* (a cancelled context is ready at once, the timer only after the delay);
\* the delay doubles and the next attempt starts.
BackoffElapsed(s) ==
    /\ loop[s] = "wait"
    /\ ~cancelled[s]
    /\ attempt' = [attempt EXCEPT ![s] = @ + 1]
    /\ loop' = [loop EXCEPT ![s] = "call"]
    /\ UNCHANGED <<cancelled, lib, cur, calls, okAt, ackSig, errCh, last,
                   delivered, invocations, loopAcked, committed, reclaimed>>
    /\ UNCHANGED <<storeVars, envVars, outboxVars>>
    /\ UNCHANGED lifeVars
    /\ waited' = [waited EXCEPT ![s] = Append(@, delay[s])]
    /\ delay' = [delay EXCEPT ![s] = @ * 2]
    /\ UNCHANGED <<herr, retErr>>
    /\ UNCHANGED <<traceVars, healthVars, appVars>>

\* A dispatch loop that does not send the cancellation error on errCh.
BackoffCancelledSilent(s) ==
    /\ loop[s] = "wait"
    /\ cancelled[s]
    /\ last' = [last EXCEPT ![s] = [Finish(s, "cancelled") EXCEPT !.sent = FALSE]]
    /\ ackSig' = [ackSig EXCEPT ![s] = "nack"]
    /\ loop' = [loop EXCEPT ![s] = "recv"]
    /\ UNCHANGED <<errCh, loopAcked>>
    /\ UNCHANGED <<cancelled, lib, cur, attempt, calls, okAt, delivered,
                   invocations, committed, reclaimed>>
    /\ UNCHANGED <<storeVars, envVars, outboxVars>>
    /\ UNCHANGED lifeVars
    /\ retErr' = [retErr EXCEPT ![s] = CtxErr]
    /\ UNCHANGED <<delay, waited, herr>>
    /\ UNCHANGED <<traceVars, healthVars, appVars>>

\* select: ctx.Done() is ready; retryWithBackoff returns ctx.Err().
BackoffCancelled(s) ==
    /\ loop[s] = "wait"
    /\ cancelled[s]
    /\ Finalise(s, "cancelled")
    /\ UNCHANGED <<cancelled, lib, cur, attempt, calls, okAt, delivered,
                   invocations, committed, reclaimed>>
    /\ UNCHANGED <<storeVars, envVars, outboxVars>>
    /\ UNCHANGED lifeVars
    /\ retErr' = [retErr EXCEPT ![s] = CtxErr]
    /\ UNCHANGED <<delay, waited, herr>>
    /\ UNCHANGED <<traceVars, healthVars, appVars>>

\* The subscriber's channel is closed: the range loop ends, errCh is closed.
LoopExit(s) ==
    /\ loop[s] = "recv"
    /\ lib[s] = "closed"
    /\ loop' = [loop EXCEPT ![s] = "done"]
    /\ UNCHANGED <<cancelled, lib, cur, attempt, calls, okAt, ackSig, errCh, last,
                   delivered, invocations, loopAcked, committed, reclaimed>>
    /\ UNCHANGED <<storeVars, envVars, outboxVars>>
    /\ UNCHANGED lifeVars
    /\ UNCHANGED <<retryVars, traceVars, healthVars, appVars>>

\* The caller of Subscribe drains one error from errCh.
DrainErr(s) ==
    /\ errCh[s] > 0
    /\ errCh' = [errCh EXCEPT ![s] = @ - 1]
    /\ UNCHANGED <<cancelled, lib, loop, cur, attempt, calls, okAt, ackSig, last,
                   delivered, invocations, loopAcked, committed, reclaimed>>
    /\ UNCHANGED <<storeVars, envVars, outboxVars>>
    /\ UNCHANGED lifeVars
    /\ UNCHANGED <<retryVars, traceVars, healthVars, appVars>>

\* ------------------------------------------------- ItemRepository.Save
\* The repository of the API process publishes through the bus of that process.
RepoBus == "api"

RECURSIVE CommitRows(_, _)
CommitRows(m, rows) ==
    IF rows = <<>>
    THEN m
    ELSE CommitRows([m EXCEPT ![Head(rows).topic] = Append(@, Head(rows).msg)],
                    Tail(rows))

\* Save(ctx, item) under a context whose span has trace tr (0: no span):
\* r.db.WithTx opens the transaction and calls the function of Save.
SaveBegin(it, tr) ==
    /\ tx.pc = "idle"
    /\ nextId <= MaxMsgs
    /\ tx' = [NoTx EXCEPT !.pc = "begun", !.item = it, !.trace = tr]
    /\ UNCHANGED <<storeVars, envVars, subVars>>
    /\ UNCHANGED <<saved, fwd, fwdCur, startRes, rolledBack, lostAcks, restarts>>
    /\ UNCHANGED lifeVars
    /\ UNCHANGED <<retryVars, traceVars, healthVars, appVars>>

\* q.InsertItem inside the tx: a unique violation (23505) is returned as
\* ErrItemAlreadyExists, any other error wrapped.
SaveInsert(ok) ==
    /\ tx.pc = "begun"
    /\ tx' = IF tx.item \in items
             THEN [tx EXCEPT !.pc = "failed", !.err = "exists"]
             ELSE IF ok
                  THEN [tx EXCEPT !.pc = "inserted"]
                  ELSE [tx EXCEPT !.pc = "failed", !.err = "insert"]
    /\ UNCHANGED <<storeVars, envVars, subVars>>
    /\ UNCHANGED <<saved, fwd, fwdCur, startRes, rolledBack, lostAcks, restarts>>
    /\ UNCHANGED lifeVars
    /\ UNCHANGED <<retryVars, traceVars, healthVars, appVars>>

\* A Save that goes on to commit when publishCreated returned an error.
SavePublishSwallowsError(ok) ==
    /\ tx.pc = "inserted"
    /\ RepoBus \in Buses
    /\ nextId' = nextId + 1
    /\ LET pub == NewTxPublisher(RepoBus)
           row == Carrying(PublishRow(pub, TopicItemCreated, nextId, tx.item),
                           CreatedMeta(nextId))
       IN IF ok
          THEN /\ tx' = [tx EXCEPT !.pc = "published",
                                   !.pub = @ \cup {nextId},
                                   !.rows = IF pub.bound = "tx"
                                            THEN Append(@, row) ELSE @]
               /\ messages' = IF pub.bound = "tx"
                              THEN messages
                              ELSE [messages EXCEPT ![row.topic] = Append(@, row.msg)]
          ELSE /\ tx' = [tx EXCEPT !.pc = "published"]
               /\ messages' = messages
    /\ UNCHANGED <<offsetAcked, claim, items, useForwarder, pubErr, fails>>
    /\ UNCHANGED subVars
    /\ UNCHANGED <<saved, fwd, fwdCur, startRes, rolledBack, lostAcks, restarts>>
    /\ UNCHANGED lifeVars
    /\ origin' = IF ok
                 THEN [origin EXCEPT ![nextId] =
                         [via |-> "tx", meta |-> CreatedMeta(nextId),
                          trace |-> tx.trace, item |-> tx.item]]
                 ELSE origin
    /\ UNCHANGED <<propagator, msgTrace, pubCall>>
    /\ UNCHANGED <<retryVars, healthVars, appVars>>

\* r.publishCreated(tx, item): a fresh message for the item is published on
\* TopicItemCreated through r.bus.NewTxPublisher(tx).
SavePublish(ok) ==
    /\ tx.pc = "inserted"
    /\ RepoBus \in Buses
    /\ nextId' = nextId + 1
    /\ LET pub == NewTxPublisher(RepoBus)
           row == Carrying(PublishRow(pub, TopicItemCreated, nextId, tx.item),
                           CreatedMeta(nextId))
       IN IF ok
          THEN /\ tx' = [tx EXCEPT !.pc = "published",
                                   !.pub = @ \cup {nextId},
                                   !.rows = IF pub.bound = "tx"
                                            THEN Append(@, row) ELSE @]
               /\ messages' = IF pub.bound = "tx"
                              THEN messages
                              ELSE [messages EXCEPT ![row.topic] = Append(@, row.msg)]
          ELSE /\ tx' = [tx EXCEPT !.pc = "failed", !.err = "publish"]
               /\ messages' = messages
    /\ UNCHANGED <<offsetAcked, claim, items, useForwarder, pubErr, fails>>
    /\ UNCHANGED subVars
    /\ UNCHANGED <<saved, fwd, fwdCur, startRes, rolledBack, lostAcks, restarts>>
    /\ UNCHANGED lifeVars
    /\ origin' = IF ok
                 THEN [origin EXCEPT ![nextId] =
                         [via |-> "tx", meta |-> CreatedMeta(nextId),
                          trace |-> tx.trace, item |-> tx.item]]
                 ELSE origin
    /\ UNCHANGED <<propagator, msgTrace, pubCall>>
    /\ UNCHANGED <<retryVars, healthVars, appVars>>

\* WithTx ends the transaction: rollback when the function returned an error
\* or the commit fails, else the item row and the rows published in the tx
\* become visible together.
SaveEnd(commitOk) ==
    /\ tx.pc \in {"failed", "published"}
    /\ IF tx.pc = "published" /\ commitOk
       THEN /\ items' = items \cup {tx.item}
            /\ messages' = CommitRows(messages, tx.rows)
            /\ saved' = [item |-> tx.item, err |-> "nil"]
            /\ rolledBack' = rolledBack
       ELSE /\ items' = items
            /\ messages' = messages
            /\ saved' = [item |-> tx.item,
                         err |-> IF tx.pc = "failed" THEN tx.err ELSE "commit"]
            /\ rolledBack' = rolledBack \cup tx.pub
    /\ tx' = NoTx
    /\ UNCHANGED <<offsetAcked, claim, envVars, subVars>>
    /\ UNCHANGED <<fwd, fwdCur, startRes, lostAcks, restarts>>
    /\ UNCHANGED lifeVars
    /\ origin' = IF tx.pc = "published" /\ commitOk
                 THEN origin
                 ELSE [id \in Ids |-> IF id \in tx.pub THEN NoOrigin ELSE origin[id]]
    /\ UNCHANGED <<propagator, msgTrace, pubCall>>
    /\ UNCHANGED <<retryVars, healthVars, appVars>>

\* ------------------------------------------------------------- Forwarder
FwdKey == <<forwarderTopic, forwarderGroup>>

\* EventBus.StartForwarder: an error on a bus without forwarder mode or with
\* a forwarder already started; else the Forwarder is created and runs.
StartForwarder(b) ==
    /\ IF ~useForwarder[b]
       THEN /\ startRes' = [startRes EXCEPT ![b] = "not_forwarder"]
            /\ fwd' = fwd
       ELSE IF fwd[b] # "off"
            THEN /\ startRes' = [startRes EXCEPT ![b] = "already"]
                 /\ fwd' = fwd
            ELSE /\ startRes' = [startRes EXCEPT ![b] = "nil"]
                 /\ fwd' = [fwd EXCEPT ![b] = "idle"]
    /\ UNCHANGED <<storeVars, envVars, subVars>>
    /\ UNCHANGED <<tx, saved, fwdCur, rolledBack, lostAcks, restarts>>
    /\ UNCHANGED lifeVars
    /\ UNCHANGED <<retryVars, traceVars, healthVars, appVars>>

\* fwdSub claims the next envelope of forwarderTopic for forwarderGroup.
FwdClaim(b) ==
    /\ fwd[b] = "idle"
    /\ ~claim[FwdKey]
    /\ offsetAcked[FwdKey] < Len(messages[forwarderTopic])
    /\ claim' = [claim EXCEPT ![FwdKey] = TRUE]
    /\ fwdCur' = [fwdCur EXCEPT ![b] = messages[forwarderTopic][offsetAcked[FwdKey] + 1]]
    /\ fwd' = [fwd EXCEPT ![b] = "claimed"]
    /\ UNCHANGED <<messages, offsetAcked, items, envVars, subVars>>
    /\ UNCHANGED <<tx, saved, startRes, rolledBack, lostAcks, restarts>>
    /\ UNCHANGED lifeVars
    /\ UNCHANGED <<retryVars, traceVars, healthVars, appVars>>

Unwrap(env) ==
    [id |-> env.id, kind |-> "plain", dest |-> env.dest, item |-> env.item,
     meta |-> env.meta]

\* A Forwarder that acknowledges the envelope although republishing failed.
FwdRepublishAcksOnError(b, ok) ==
    /\ fwd[b] = "claimed"
    /\ messages' = IF ok
                   THEN [messages EXCEPT ![fwdCur[b].dest] = Append(@, Unwrap(fwdCur[b]))]
                   ELSE messages
    /\ fwd' = [fwd EXCEPT ![b] = "republished"]
    /\ fails' = IF ok THEN fails ELSE Min(fails + 1, MaxFails)
    /\ UNCHANGED <<offsetAcked, claim, items, useForwarder, nextId, pubErr>>
    /\ UNCHANGED subVars
    /\ UNCHANGED <<tx, saved, fwdCur, startRes, rolledBack, lostAcks, restarts>>
    /\ UNCHANGED lifeVars
    /\ UNCHANGED <<retryVars, traceVars, healthVars, appVars>>

\* The Forwarder unwraps the envelope and publishes the inner message on its
\* real topic through targetPub (on q.db, outside the subscriber's
\* transaction); on an error the envelope is Nacked and sent again.
FwdRepublish(b, ok) ==
    /\ fwd[b] = "claimed"
    /\ IF ok
       THEN /\ messages' = [messages EXCEPT ![fwdCur[b].dest] = Append(@, Unwrap(fwdCur[b]))]
            /\ fwd' = [fwd EXCEPT ![b] = "republished"]
       ELSE /\ messages' = messages
            /\ fwd' = fwd
    /\ fails' = IF ok THEN fails ELSE Min(fails + 1, MaxFails)
    /\ UNCHANGED <<offsetAcked, claim, items, useForwarder, nextId, pubErr>>
    /\ UNCHANGED subVars
    /\ UNCHANGED <<tx, saved, fwdCur, startRes, rolledBack, lostAcks, restarts>>
    /\ UNCHANGED lifeVars
    /\ UNCHANGED <<retryVars, traceVars, healthVars, appVars>>

\* An acknowledgement that leaves the offset of forwarderGroup where it was.
FwdAckKeepsOffset(b) ==
    /\ fwd[b] = "republished"
    /\ offsetAcked' = offsetAcked
    /\ claim' = [claim EXCEPT ![FwdKey] = FALSE]
    /\ fwd' = [fwd EXCEPT ![b] = "idle"]
    /\ UNCHANGED <<messages, items, envVars, subVars>>
    /\ UNCHANGED <<tx, saved, fwdCur, startRes, rolledBack, lostAcks, restarts>>
    /\ UNCHANGED lifeVars
    /\ UNCHANGED <<retryVars, traceVars, healthVars, appVars>>

\* The envelope is Acked: fwdSub advances the offset of forwarderGroup.
FwdAck(b) ==
    /\ fwd[b] = "republished"
    /\ offsetAcked' = [offsetAcked EXCEPT ![FwdKey] = @ + 1]
    /\ claim' = [claim EXCEPT ![FwdKey] = FALSE]
    /\ fwd' = [fwd EXCEPT ![b] = "idle"]
    /\ UNCHANGED <<messages, items, envVars, subVars>>
    /\ UNCHANGED <<tx, saved, fwdCur, startRes, rolledBack, lostAcks, restarts>>
    /\ UNCHANGED lifeVars
    /\ UNCHANGED <<retryVars, traceVars, healthVars, appVars>>

\* The Forwarder stops (its context is cancelled, Close, or the process
\* dies): the transaction of fwdSub is rolled back, an envelope it holds
\* stays unacknowledged.
FwdStop(b) ==
    /\ fwd[b] \in {"idle", "claimed", "republished"}
    /\ fwd' = [fwd EXCEPT ![b] = "stopped"]
    /\ claim' = [claim EXCEPT ![FwdKey] = IF fwd[b] = "idle" THEN @ ELSE FALSE]
    /\ lostAcks' = IF fwd[b] = "republished"
                   THEN [lostAcks EXCEPT ![fwdCur[b].id] = @ + 1]
                   ELSE lostAcks
    /\ UNCHANGED <<messages, offsetAcked, items, envVars, subVars>>
    /\ UNCHANGED <<tx, saved, fwdCur, startRes, rolledBack, restarts>>
    /\ UNCHANGED lifeVars
    /\ UNCHANGED <<retryVars, traceVars, healthVars, appVars>>

\* The API process is started again: a new EventBus from the same constructor.
Restart(b) ==
    /\ fwd[b] = "stopped"
    /\ restarts < MaxRestarts
    /\ restarts' = restarts + 1
    /\ fwd' = [fwd EXCEPT ![b] = "off"]
    /\ startRes' = [startRes EXCEPT ![b] = "none"]
    /\ UNCHANGED <<storeVars, envVars, subVars>>
    /\ UNCHANGED <<tx, saved, fwdCur, rolledBack, lostAcks>>
    /\ UNCHANGED lifeVars
    /\ UNCHANGED <<retryVars, traceVars, healthVars, appVars>>

\* ------------------------------------------ StartForwarder, step by step
\* A StartForwarder without the check of q.useForwarder.
StartCallUnchecked(b, ok) ==
    /\ startPc[b] = "none"
    /\ IF fwd[b] # "off"
       THEN /\ startRes' = [startRes EXCEPT ![b] = "already"]
            /\ UNCHANGED <<fwd, startPc>>
       ELSE IF ok
            THEN /\ fwd' = [fwd EXCEPT ![b] = "starting"]
                 /\ startPc' = [startPc EXCEPT ![b] = "waiting"]
                 /\ startRes' = [startRes EXCEPT ![b] = "none"]
            ELSE /\ startRes' = [startRes EXCEPT ![b] = "create"]
                 /\ UNCHANGED <<fwd, startPc>>
    /\ UNCHANGED <<storeVars, envVars, subVars>>
    /\ UNCHANGED <<tx, saved, fwdCur, rolledBack, lostAcks, restarts>>
    /\ UNCHANGED <<closePc, closeLog, closeRes, timedOut>>
    /\ UNCHANGED <<retryVars, traceVars, healthVars, appVars>>

\* A StartForwarder without the check of q.fwd.
StartCallAgain(b, ok) ==
    /\ startPc[b] = "none"
    /\ IF ~useForwarder[b]
       THEN /\ startRes' = [startRes EXCEPT ![b] = "not_forwarder"]
            /\ UNCHANGED <<fwd, startPc>>
       ELSE IF ok
            THEN /\ fwd' = [fwd EXCEPT ![b] = "starting"]
                 /\ startPc' = [startPc EXCEPT ![b] = "waiting"]
                 /\ startRes' = [startRes EXCEPT ![b] = "none"]
            ELSE /\ startRes' = [startRes EXCEPT ![b] = "create"]
                 /\ UNCHANGED <<fwd, startPc>>
    /\ UNCHANGED <<storeVars, envVars, subVars>>
    /\ UNCHANGED <<tx, saved, fwdCur, rolledBack, lostAcks, restarts>>
    /\ UNCHANGED <<closePc, closeLog, closeRes, timedOut>>
    /\ UNCHANGED <<retryVars, traceVars, healthVars, appVars>>

\* StartForwarder up to its select: the two checks; then fwdSub, targetPub
\* and the Forwarder are created (an error of one of them is returned and
\* q.fwd stays nil), q.fwd is set and the goroutine of fwd.Run is started.
StartCall(b, ok) ==
    /\ startPc[b] = "none"
    /\ IF ~useForwarder[b]
       THEN /\ startRes' = [startRes EXCEPT ![b] = "not_forwarder"]
            /\ UNCHANGED <<fwd, startPc>>
       ELSE IF fwd[b] # "off"
            THEN /\ startRes' = [startRes EXCEPT ![b] = "already"]
                 /\ UNCHANGED <<fwd, startPc>>
            ELSE IF ok
                 THEN /\ fwd' = [fwd EXCEPT ![b] = "starting"]
                      /\ startPc' = [startPc EXCEPT ![b] = "waiting"]
                      /\ startRes' = [startRes EXCEPT ![b] = "none"]
                 ELSE /\ startRes' = [startRes EXCEPT ![b] = "create"]
                      /\ UNCHANGED <<fwd, startPc>>
    /\ UNCHANGED <<storeVars, envVars, subVars>>
    /\ UNCHANGED <<tx, saved, fwdCur, rolledBack, lostAcks, restarts>>
    /\ UNCHANGED <<closePc, closeLog, closeRes, timedOut>>
    /\ UNCHANGED <<retryVars, traceVars, healthVars, appVars>>

\* fwd.Run: the router of the Forwarder is running, fwd.Running() is closed.
FwdRunning(b) ==
    /\ fwd[b] = "starting"
    /\ fwd' = [fwd EXCEPT ![b] = "idle"]
    /\ UNCHANGED <<storeVars, envVars, subVars>>
    /\ UNCHANGED <<tx, saved, fwdCur, startRes, rolledBack, lostAcks, restarts>>
    /\ UNCHANGED lifeVars
    /\ UNCHANGED <<retryVars, traceVars, healthVars, appVars>>

\* fwd.Run returns before the router is running (its context is cancelled
\* or the router fails to start): fwd.Running() is never closed.
FwdRunFails(b) ==
    /\ fwd[b] = "starting"
    /\ fwd' = [fwd EXCEPT ![b] = "failed"]
    /\ UNCHANGED <<storeVars, envVars, subVars>>
    /\ UNCHANGED <<tx, saved, fwdCur, startRes, rolledBack, lostAcks, restarts>>
    /\ UNCHANGED lifeVars
    /\ UNCHANGED <<retryVars, traceVars, healthVars, appVars>>

\* A StartForwarder that returns nil without waiting for fwd.Running().
StartReturnNilEarly(b) ==
    /\ startPc[b] = "waiting"
    /\ startPc' = [startPc EXCEPT ![b] = "none"]
    /\ startRes' = [startRes EXCEPT ![b] = "nil"]
    /\ UNCHANGED <<storeVars, envVars, subVars>>
    /\ UNCHANGED <<tx, saved, fwd, fwdCur, rolledBack, lostAcks, restarts>>
    /\ UNCHANGED <<closePc, closeLog, closeRes, timedOut>>
    /\ UNCHANGED <<retryVars, traceVars, healthVars, appVars>>

\* select case <-fwd.Running(): StartForwarder returns nil.
StartReturnNil(b) ==
    /\ startPc[b] = "waiting"
    /\ fwd[b] \in {"idle", "claimed", "republished", "stopped"}
    /\ startPc' = [startPc EXCEPT ![b] = "none"]
    /\ startRes' = [startRes EXCEPT ![b] = "nil"]
    /\ UNCHANGED <<storeVars, envVars, subVars>>
    /\ UNCHANGED <<tx, saved, fwd, fwdCur, rolledBack, lostAcks, restarts>>
    /\ UNCHANGED <<closePc, closeLog, closeRes, timedOut>>
    /\ UNCHANGED <<retryVars, traceVars, healthVars, appVars>>

\* select case <-ctx.Done(): the caller's context is cancelled; StartForwarder
\* returns an error, q.fwd stays set.
StartReturnCancelled(b) ==
    /\ startPc[b] = "waiting"
    /\ startPc' = [startPc EXCEPT ![b] = "none"]
    /\ startRes' = [startRes EXCEPT ![b] = "cancelled"]
    /\ UNCHANGED <<storeVars, envVars, subVars>>
    /\ UNCHANGED <<tx, saved, fwd, fwdCur, rolledBack, lostAcks, restarts>>
    /\ UNCHANGED <<closePc, closeLog, closeRes, timedOut>>
    /\ UNCHANGED <<retryVars, traceVars, healthVars, appVars>>

\* -------------------------------- StartForwarder, called concurrently
\* StartForwarder holds no lock: between the read of q.fwd and the write
\* q.fwd = fwd (while fwdSub, targetPub and the Forwarder are created) another
\* call can read q.fwd too. The two checks of one call:
StartCheck(b, c) ==
    /\ starts[c] = NoStart
    /\ starts' = [starts EXCEPT ![c] =
                     IF ~useForwarder[b]
                     THEN [@ EXCEPT !.res = "not_forwarder"]
                     ELSE IF fwd[b] # "off"
                          THEN [@ EXCEPT !.res = "already"]
                          ELSE [@ EXCEPT !.pc = "checked"]]
    /\ UNCHANGED svc
    /\ UNCHANGED <<storeVars, envVars, subVars, outboxVars>>
    /\ UNCHANGED lifeVars
    /\ UNCHANGED <<retryVars, traceVars, healthVars>>

\* fwdSub, targetPub and the Forwarder are created (an error is returned and
\* nothing is recorded), then q.fwd = fwd, q.wg.Add(1) and go fwd.Run(ctx).
StartSpawn(b, c, ok) ==
    /\ starts[c].pc = "checked"
    /\ IF ok
       THEN /\ starts' = [starts EXCEPT ![c] = [@ EXCEPT !.pc = "waiting",
                                                          !.run = "starting"]]
            /\ fwd' = [fwd EXCEPT ![b] = "starting"]
       ELSE /\ starts' = [starts EXCEPT ![c] = [@ EXCEPT !.pc = "none",
                                                          !.res = "create"]]
            /\ fwd' = fwd
    /\ UNCHANGED svc
    /\ UNCHANGED <<storeVars, envVars, subVars>>
    /\ UNCHANGED <<tx, saved, fwdCur, startRes, rolledBack, lostAcks, restarts>>
    /\ UNCHANGED lifeVars
    /\ UNCHANGED <<retryVars, traceVars, healthVars>>

\* The goroutine of fwd.Run started by a call: its router is running and
\* fwd.Running() is closed, or Run returned before that.
StartedRun(c, ok) ==
    /\ starts[c].run = "starting"
    /\ starts' = [starts EXCEPT ![c] =
                     [@ EXCEPT !.run = IF ok THEN "running" ELSE "failed"]]
    /\ UNCHANGED svc
    /\ UNCHANGED <<storeVars, envVars, subVars, outboxVars>>
    /\ UNCHANGED lifeVars
    /\ UNCHANGED <<retryVars, traceVars, healthVars>>

\* The select of a call: case <-fwd.Running() returns nil, case <-ctx.Done()
\* the error.
StartSelect(c, done) ==
    /\ starts[c].pc = "waiting"
    /\ IF done
       THEN starts' = [starts EXCEPT ![c] = [@ EXCEPT !.pc = "none",
                                                      !.res = "cancelled"]]
       ELSE /\ starts[c].run = "running"
            /\ starts' = [starts EXCEPT ![c] = [@ EXCEPT !.pc = "none",
                                                         !.res = "nil"]]
    /\ UNCHANGED svc
    /\ UNCHANGED <<storeVars, envVars, subVars, outboxVars>>
    /\ UNCHANGED lifeVars
    /\ UNCHANGED <<retryVars, traceVars, healthVars>>

\* ------------------------------------------- ItemService and its cache
\* handleItemCreated, invoked by the dispatch loop: itemCache.Set with the
\* item of the event; a failed Set is logged and the handler returns nil
\* all the same, which ends retryWithBackoff with nil. With the Redis client
\* closed Set fails. (The payload is the one publishCreated marshalled, so
\* json.Unmarshal does not fail.)
HandleItemCreated(s, it, ok) ==
    /\ loop[s] = "running"
    /\ ok => svc.redis = "open"
    /\ svc' = [svc EXCEPT !.cache = IF ok /\ cur[s].item = it THEN TRUE ELSE @]
    /\ Finalise(s, "nil")
    /\ okAt' = [okAt EXCEPT ![s] = IF @ = 0 THEN calls[s] ELSE @]
    /\ herr' = [herr EXCEPT ![s] = 0]
    /\ retErr' = [retErr EXCEPT ![s] = NilErr]
    /\ UNCHANGED <<cancelled, lib, cur, attempt, calls, delivered,
                   invocations, committed, reclaimed>>
    /\ UNCHANGED <<storeVars, envVars, outboxVars>>
    /\ UNCHANGED lifeVars
    /\ UNCHANGED <<delay, waited>>
    /\ UNCHANGED <<traceVars, healthVars>>
    /\ UNCHANGED starts

\* ItemService.GetByID, first step: s.cache.Get. A hit is returned; a miss
\* (redis.Nil) or a cache error falls through to Postgres. `after` records
\* that the call began after a Delete of the item had returned nil.
GetCache(it) ==
    /\ svc.get = "idle"
    /\ IF svc.redis = "open" /\ svc.cache
       THEN svc' = [svc EXCEPT !.got = "item", !.stale = @ \/ svc.deleted]
       ELSE svc' = [svc EXCEPT !.get = "miss", !.after = svc.deleted]
    /\ UNCHANGED storeVars
    /\ UNCHANGED starts
    /\ UNCHANGED <<envVars, subVars, outboxVars>>
    /\ UNCHANGED lifeVars
    /\ UNCHANGED <<retryVars, traceVars, healthVars>>

\* GetByID, second step: s.repo.GetByID. A missing row is ErrItemNotFound;
\* a row is returned, and a detached goroutine is started that will write
\* it to the cache.
GetRepo(it) ==
    /\ svc.get = "miss"
    /\ IF it \in items
       THEN svc' = [svc EXCEPT !.get = "idle", !.got = "item", !.warm = TRUE,
                               !.stale = @ \/ svc.after]
       ELSE svc' = [svc EXCEPT !.get = "idle", !.got = "notfound"]
    /\ UNCHANGED storeVars
    /\ UNCHANGED starts
    /\ UNCHANGED <<envVars, subVars, outboxVars>>
    /\ UNCHANGED lifeVars
    /\ UNCHANGED <<retryVars, traceVars, healthVars>>

\* The detached goroutine of GetByID: s.cache.Set(context.Background(), ..),
\* its error dropped.
WarmSet(ok) ==
    /\ svc.warm
    /\ svc' = [svc EXCEPT !.warm = FALSE,
                          !.cache = IF ok /\ svc.redis = "open" THEN TRUE ELSE @]
    /\ UNCHANGED storeVars
    /\ UNCHANGED starts
    /\ UNCHANGED <<envVars, subVars, outboxVars>>
    /\ UNCHANGED lifeVars
    /\ UNCHANGED <<retryVars, traceVars, healthVars>>

\* ItemService.Delete, first step: s.repo.Exists; ErrItemNotFound when the
\* row is missing.
DeleteExists(it) ==
    /\ svc.del = "idle"
    /\ ~svc.deleted
    /\ svc' = [svc EXCEPT !.del = IF it \in items THEN "exists" ELSE "idle"]
    /\ UNCHANGED storeVars
    /\ UNCHANGED starts
    /\ UNCHANGED <<envVars, subVars, outboxVars>>
    /\ UNCHANGED lifeVars
    /\ UNCHANGED <<retryVars, traceVars, healthVars>>

\* Delete, second step: s.repo.Delete; its error is returned.
DeleteRow(it, ok) ==
    /\ svc.del = "exists"
    /\ items' = IF ok THEN items \ {it} ELSE items
    /\ svc' = [svc EXCEPT !.del = IF ok THEN "row" ELSE "idle"]
    /\ UNCHANGED <<messages, offsetAcked, claim>>
    /\ UNCHANGED starts
    /\ UNCHANGED <<envVars, subVars, outboxVars>>
    /\ UNCHANGED lifeVars
    /\ UNCHANGED <<retryVars, traceVars, healthVars>>

\* Delete, last step: _ = s.cache.Delete(..) and return nil, whether or not
\* the key was removed.
DeleteEvict(ok) ==
    /\ svc.del = "row"
    /\ svc' = [svc EXCEPT !.del = "idle", !.deleted = TRUE,
                          !.cache = IF ok /\ svc.redis = "open" THEN FALSE ELSE @]
    /\ UNCHANGED storeVars
    /\ UNCHANGED starts
    /\ UNCHANGED <<envVars, subVars, outboxVars>>
    /\ UNCHANGED lifeVars
    /\ UNCHANGED <<retryVars, traceVars, healthVars>>

\* ------------------------------------------------ the worker's shutdown
\* The worker's main receives SIGINT / SIGTERM and returns: its deferred
\* calls run, last registered first.
Quit ==
    /\ ~svc.quit
    /\ svc' = [svc EXCEPT !.quit = TRUE]
    /\ UNCHANGED storeVars
    /\ UNCHANGED starts
    /\ UNCHANGED <<envVars, subVars, outboxVars>>
    /\ UNCHANGED lifeVars
    /\ UNCHANGED <<retryVars, traceVars, healthVars>>

\* defer redisClient.Close(), registered after defer eventBus.Close() and so
\* run before it.
RedisClose ==
    /\ svc.quit
    /\ svc.redis = "open"
    /\ svc' = [svc EXCEPT !.redis = "closed"]
    /\ UNCHANGED storeVars
    /\ UNCHANGED starts
    /\ UNCHANGED <<envVars, subVars, outboxVars>>
    /\ UNCHANGED lifeVars
    /\ UNCHANGED <<retryVars, traceVars, healthVars>>

\* -------------------------------------------------------- EventBus.Close
BusSubs(b) == {s \in Subs : SubBus(s) = b}

\* q.wg is at zero: every dispatch goroutine of the bus has returned and the
\* goroutine of fwd.Run has returned.
WgDone(b) ==
    /\ \A s \in BusSubs(b) : loop[s] \in {"none", "done"}
    /\ fwd[b] \in {"off", "stopped", "failed"}

\* Close, first step: q.subscriber.Close(). The SQL subscriber stops its
\* consumers (a transaction holding a message is rolled back) and closes
\* their channels; on an error Close returns it.
CloseSubscriber(b, ok) ==
    /\ closePc[b] = "none"
    /\ closeLog' = [closeLog EXCEPT ![b] = Append(@, "subscriber")]
    /\ IF ok
       THEN /\ lib' = [s \in Subs |->
                          IF s \in BusSubs(b) /\ lib[s] # "none"
                          THEN "closed" ELSE lib[s]]
            /\ claim' = [k \in DOMAIN claim |->
                            IF \E s \in BusSubs(b) :
                                  Key(s) = k /\ lib[s] \in {"claimed", "sent"}
                            THEN FALSE ELSE claim[k]]
            /\ closePc' = [closePc EXCEPT ![b] = "fwd"]
            /\ closeRes' = closeRes
       ELSE /\ lib' = lib
            /\ claim' = claim
            /\ closePc' = [closePc EXCEPT ![b] = "done"]
            /\ closeRes' = [closeRes EXCEPT ![b] = "subscriber"]
    /\ UNCHANGED <<messages, offsetAcked, items, envVars, outboxVars>>
    /\ UNCHANGED <<cancelled, loop, cur, attempt, calls, okAt, ackSig, errCh, last,
                   delivered, invocations, loopAcked, committed, reclaimed>>
    /\ UNCHANGED <<timedOut, startPc>>
    /\ UNCHANGED <<retryVars, traceVars, healthVars, appVars>>

\* A Close that goes from the forwarder straight to the publisher.
CloseForwarderSkipsWait(b, ok) ==
    /\ closePc[b] = "fwd"
    /\ IF fwd[b] = "off"
       THEN /\ closePc' = [closePc EXCEPT ![b] = "pub"]
            /\ UNCHANGED <<closeLog, closeRes, fwd, claim, lostAcks>>
       ELSE /\ closeLog' = [closeLog EXCEPT ![b] = Append(@, "forwarder")]
            /\ IF ok
               THEN /\ fwd' = [fwd EXCEPT ![b] = "stopped"]
                    /\ claim' = [claim EXCEPT ![FwdKey] =
                                    IF fwd[b] \in {"claimed", "republished"}
                                    THEN FALSE ELSE @]
                    /\ lostAcks' = IF fwd[b] = "republished"
                                   THEN [lostAcks EXCEPT ![fwdCur[b].id] = @ + 1]
                                   ELSE lostAcks
                    /\ closePc' = [closePc EXCEPT ![b] = "pub"]
                    /\ closeRes' = closeRes
               ELSE /\ UNCHANGED <<fwd, claim, lostAcks>>
                    /\ closePc' = [closePc EXCEPT ![b] = "done"]
                    /\ closeRes' = [closeRes EXCEPT ![b] = "forwarder"]
    /\ UNCHANGED <<messages, offsetAcked, items, envVars, subVars>>
    /\ UNCHANGED <<tx, saved, fwdCur, startRes, rolledBack, restarts>>
    /\ UNCHANGED <<timedOut, startPc>>
    /\ UNCHANGED <<retryVars, traceVars, healthVars, appVars>>

\* Close, second step: if q.fwd != nil, q.fwd.Close() stops the Forwarder
\* (fwd.Run returns); on an error Close returns it.
CloseForwarder(b, ok) ==
    /\ closePc[b] = "fwd"
    /\ IF fwd[b] = "off"
       THEN /\ closePc' = [closePc EXCEPT ![b] = "wait"]
            /\ UNCHANGED <<closeLog, closeRes, fwd, claim, lostAcks>>
       ELSE /\ closeLog' = [closeLog EXCEPT ![b] = Append(@, "forwarder")]
            /\ IF ok
               THEN /\ fwd' = [fwd EXCEPT ![b] = "stopped"]
                    /\ claim' = [claim EXCEPT ![FwdKey] =
                                    IF fwd[b] \in {"claimed", "republished"}
                                    THEN FALSE ELSE @]
                    /\ lostAcks' = IF fwd[b] = "republished"
                                   THEN [lostAcks EXCEPT ![fwdCur[b].id] = @ + 1]
                                   ELSE lostAcks
                    /\ closePc' = [closePc EXCEPT ![b] = "wait"]
                    /\ closeRes' = closeRes
               ELSE /\ UNCHANGED <<fwd, claim, lostAcks>>
                    /\ closePc' = [closePc EXCEPT ![b] = "done"]
                    /\ closeRes' = [closeRes EXCEPT ![b] = "forwarder"]
    /\ UNCHANGED <<messages, offsetAcked, items, envVars, subVars>>
    /\ UNCHANGED <<tx, saved, fwdCur, startRes, rolledBack, restarts>>
    /\ UNCHANGED <<timedOut, startPc>>
    /\ UNCHANGED <<retryVars, traceVars, healthVars, appVars>>

\* A wait that ends although q.wg is not at zero and no timeout fired.
CloseWaitDoneUnchecked(b) ==
    /\ closePc[b] = "wait"
    /\ closeLog' = [closeLog EXCEPT ![b] = Append(@, "wait")]
    /\ closePc' = [closePc EXCEPT ![b] = "pub"]
    /\ UNCHANGED <<storeVars, envVars, subVars, outboxVars>>
    /\ UNCHANGED <<closeRes, timedOut, startPc>>
    /\ UNCHANGED <<retryVars, traceVars, healthVars, appVars>>

\* Close, third step, select case <-done: q.wg.Wait() returned.
CloseWaitDone(b) ==
    /\ closePc[b] = "wait"
    /\ WgDone(b)
    /\ closeLog' = [closeLog EXCEPT ![b] = Append(@, "wait")]
    /\ closePc' = [closePc EXCEPT ![b] = "pub"]
    /\ UNCHANGED <<storeVars, envVars, subVars, outboxVars>>
    /\ UNCHANGED <<closeRes, timedOut, startPc>>
    /\ UNCHANGED <<retryVars, traceVars, healthVars, appVars>>

\* A Close that returns an error when the shutdown timeout fires.
CloseWaitTimeoutFails(b) ==
    /\ closePc[b] = "wait"
    /\ ~WgDone(b)
    /\ closeLog' = [closeLog EXCEPT ![b] = Append(@, "wait")]
    /\ timedOut' = [timedOut EXCEPT ![b] = TRUE]
    /\ closePc' = [closePc EXCEPT ![b] = "done"]
    /\ closeRes' = [closeRes EXCEPT ![b] = "timeout"]
    /\ UNCHANGED <<storeVars, envVars, subVars, outboxVars>>
    /\ UNCHANGED startPc
    /\ UNCHANGED <<retryVars, traceVars, healthVars, appVars>>

\* Close, third step, select case <-ctx.Done(): shutdownTimeout passed with
\* q.wg not at zero; the timeout is logged and Close goes on.
CloseWaitTimeout(b) ==
    /\ closePc[b] = "wait"
    /\ ~WgDone(b)
    /\ closeLog' = [closeLog EXCEPT ![b] = Append(@, "wait")]
    /\ timedOut' = [timedOut EXCEPT ![b] = TRUE]
    /\ closePc' = [closePc EXCEPT ![b] = "pub"]
    /\ UNCHANGED <<storeVars, envVars, subVars, outboxVars>>
    /\ UNCHANGED <<closeRes, startPc>>
    /\ UNCHANGED <<retryVars, traceVars, healthVars, appVars>>

\* Close, fourth step: q.publisher.Close(); on an error Close returns it.
ClosePublisher(b, ok) ==
    /\ closePc[b] = "pub"
    /\ closeLog' = [closeLog EXCEPT ![b] = Append(@, "publisher")]
    /\ closePc' = [closePc EXCEPT ![b] = IF ok THEN "db" ELSE "done"]
    /\ closeRes' = [closeRes EXCEPT ![b] = IF ok THEN @ ELSE "publisher"]
    /\ UNCHANGED <<storeVars, envVars, subVars, outboxVars>>
    /\ UNCHANGED <<timedOut, startPc>>
    /\ UNCHANGED <<retryVars, traceVars, healthVars, appVars>>

\* Close, last step: return q.db.Close().
CloseDb(b, ok) ==
    /\ closePc[b] = "db"
    /\ closeLog' = [closeLog EXCEPT ![b] = Append(@, "db")]
    /\ closePc' = [closePc EXCEPT ![b] = "done"]
    /\ closeRes' = [closeRes EXCEPT ![b] = IF ok THEN "nil" ELSE "db"]
    /\ UNCHANGED <<storeVars, envVars, subVars, outboxVars>>
    /\ UNCHANGED <<timedOut, startPc>>
    /\ UNCHANGED <<retryVars, traceVars, healthVars, appVars>>

\* The API process with its repository and Forwarder, and one worker whose
\* handler succeeds. The Forwarder's republish succeeds here; its failures
\* are the subject of NextRelay.
NextOutbox ==
    \/ Publish("api", TopicItemCreated, NoMeta, 0)
    \/ \E it \in 1..MaxItems : SaveBegin(it, 0)
    \/ \E ok \in BOOLEAN : SaveInsert(ok)
    \/ \E ok \in BOOLEAN : SavePublish(ok)
    \/ \E ok \in BOOLEAN : SaveEnd(ok)
    \/ StartForwarder("api")
    \/ FwdClaim("api")
    \/ FwdRepublish("api", TRUE)
    \/ FwdAck("api")
    \/ Subscribe(1)
    \/ LibClaim(1)
    \/ LibSend(1)
    \/ LibAck(1)
    \/ HandlerStart(1)
    \/ HandlerReturn(1, TRUE)

SpecOutbox == Init /\ [][NextOutbox]_vars

\* The API process with its Forwarder, and handlers subscribed on the
\* reserved topic: one of the service "audit", one of a service named
\* "forwarder".
ReservedSubs == {4, 5}

NextReserved ==
    \/ Publish("api", TopicItemCreated, NoMeta, 0)
    \/ StartForwarder("api")
    \/ FwdClaim("api")
    \/ FwdRepublish("api", TRUE)
    \/ FwdAck("api")
    \/ \E s \in ReservedSubs : Subscribe(s)
    \/ \E s \in ReservedSubs : LibClaim(s)
    \/ \E s \in ReservedSubs : LibSend(s)
    \/ \E s \in ReservedSubs : LibAck(s)
    \/ \E s \in ReservedSubs : HandlerStart(s)
    \/ \E s \in ReservedSubs : HandlerReturn(s, TRUE)

SpecReserved == Init /\ [][NextReserved]_vars

\* A worker process with one subscription and the API process with its
\* Forwarder, each of which calls Close once (the deferred bus.Close() of
\* main); no Subscribe and no StartForwarder after Close was called. The
\* handler returns an error at most once, so a retry can be in flight.
CloseBuses == {"w1", "api"}

CloseRun(b) ==
    \/ \E ok \in BOOLEAN : CloseSubscriber(b, ok)
    \/ \E ok \in BOOLEAN : CloseForwarder(b, ok)
    \/ CloseWaitDone(b)
    \/ CloseWaitTimeout(b)
    \/ \E ok \in BOOLEAN : ClosePublisher(b, ok)
    \/ \E ok \in BOOLEAN : CloseDb(b, ok)

NextClose ==
    \/ Publish("api", TopicItemCreated, NoMeta, 0)
    \/ closePc["api"] = "none" /\ StartForwarder("api")
    \/ FwdClaim("api")
    \/ FwdRepublish("api", TRUE)
    \/ FwdAck("api")
    \/ closePc["w1"] = "none" /\ Subscribe(1)
    \/ LibClaim(1)
    \/ LibSend(1)
    \/ LibAck(1)
    \/ HandlerStart(1)
    \/ \E ok \in BOOLEAN : (ok \/ fails = 0) /\ HandlerReturn(1, ok)
    \/ BackoffElapsed(1)
    \/ LoopExit(1)
    \/ \E b \in CloseBuses : CloseRun(b)

SpecClose == Init /\ [][NextClose]_vars

\* A Close call that was started keeps running; nothing is assumed about
\* the handlers.
FairClose == SpecClose /\ \A b \in CloseBuses : WF_vars(CloseRun(b))

\* The API process, built in either mode, calls StartForwarder any number of
\* times, one call after the other.
NextStart ==
    \/ Publish("api", TopicItemCreated, NoMeta, 0)
    \/ \E ok \in BOOLEAN : StartCall("api", ok)
    \/ FwdRunning("api")
    \/ FwdRunFails("api")
    \/ StartReturnNil("api")
    \/ StartReturnCancelled("api")
    \/ FwdClaim("api")
    \/ FwdRepublish("api", TRUE)
    \/ FwdAck("api")
    \/ FwdStop("api")

SpecStart == Init /\ [][NextStart]_vars

\* The API process whose context is never cancelled (no signal arrives):
\* the case <-ctx.Done() of StartForwarder's select is never ready.
NextUncancelled ==
    \/ Publish("api", TopicItemCreated, NoMeta, 0)
    \/ \E ok \in BOOLEAN : StartCall("api", ok)
    \/ FwdRunning("api")
    \/ FwdRunFails("api")
    \/ StartReturnNil("api")
    \/ FwdClaim("api")
    \/ FwdRepublish("api", TRUE)
    \/ FwdAck("api")
    \/ FwdStop("api")

SpecUncancelled == Init /\ [][NextUncancelled]_vars

\* The goroutine of fwd.Run and the goroutine that called StartForwarder
\* keep running.
FairUncancelled ==
    /\ SpecUncancelled
    /\ WF_vars(FwdRunning("api") \/ FwdRunFails("api"))
    /\ WF_vars(StartReturnNil("api"))

\* Two goroutines of the API process call StartForwarder on its bus, in
\* either mode, while the process publishes.
NextConcurrent ==
    \/ Publish("api", TopicItemCreated, NoMeta, 0)
    \/ \E c \in Callers : StartCheck("api", c)
    \/ \E c \in Callers, ok \in BOOLEAN : StartSpawn("api", c, ok)
    \/ \E c \in Callers, ok \in BOOLEAN : StartedRun(c, ok)
    \/ \E c \in Callers, done \in BOOLEAN : StartSelect(c, done)

SpecConcurrent == Init /\ [][NextConcurrent]_vars

\* The API process alone, with a Forwarder that can stop and a process that
\* can be started again; envelopes come from Save, whose insert and publish
\* succeed and whose commit can fail. Every Save is of a new item (the
\* service draws a fresh uuid for each), so a Save whose commit failed is
\* tried again for the same item.
FwdRun(b) ==
    \/ StartForwarder(b)
    \/ FwdClaim(b)
    \/ \E ok \in BOOLEAN : (ok \/ fails < MaxFails) /\ FwdRepublish(b, ok)
    \/ FwdAck(b)

NextRelay ==
    \/ Cardinality(items) < MaxItems /\ SaveBegin(Cardinality(items) + 1, 0)
    \/ SaveInsert(TRUE)
    \/ SavePublish(TRUE)
    \/ \E ok \in BOOLEAN : SaveEnd(ok)
    \/ FwdRun("api")
    \/ FwdStop("api")
    \/ Restart("api")

SpecRelay == Init /\ [][NextRelay]_vars

\* fwd.Run keeps consuming while the Forwarder is not stopped, and main
\* calls StartForwarder when the process starts.
FairRelay == SpecRelay /\ WF_vars(FwdRun("api"))

\* ------------------------------------------------- one subscription alone
\* A worker with one subscription whose handler may fail without limit.
NextDispatch ==
    \/ Publish("w1", TopicItemCreated, NoMeta, 0)
    \/ Subscribe(1)
    \/ Cancel(1)
    \/ LibClaim(1)
    \/ LibSend(1)
    \/ LibAck(1)
    \/ LibNack(1)
    \/ LibClose(1)
    \/ HandlerStart(1)
    \/ \E ok \in BOOLEAN : HandlerReturn(1, ok)
    \/ BackoffElapsed(1)
    \/ BackoffCancelled(1)
    \/ LoopExit(1)
    \/ DrainErr(1)

InitDirect == Init /\ ~useForwarder["api"]

SpecDispatch == InitDirect /\ [][NextDispatch]_vars

\* ------------------------------------------------- the item service
\* The API process (either mode) creates one item, serves GetByID and one
\* Delete of it, while the worker's handler warms the cache from the
\* item.created event. An id is a fresh uuid, so the item is created once.
NextCache ==
    \/ nextId = 1 /\ ~svc.deleted /\ SaveBegin(1, 0)
    \/ SaveInsert(TRUE)
    \/ SavePublish(TRUE)
    \/ SaveEnd(TRUE)
    \/ StartForwarder("api")
    \/ FwdClaim("api")
    \/ FwdRepublish("api", TRUE)
    \/ FwdAck("api")
    \/ Subscribe(1)
    \/ LibClaim(1)
    \/ LibSend(1)
    \/ LibAck(1)
    \/ HandlerStart(1)
    \/ \E ok \in BOOLEAN : HandleItemCreated(1, 1, ok)
    \/ GetCache(1)
    \/ GetRepo(1)
    \/ \E ok \in BOOLEAN : WarmSet(ok)
    \/ DeleteExists(1)
    \/ \E ok \in BOOLEAN : DeleteRow(1, ok)
    \/ \E ok \in BOOLEAN : DeleteEvict(ok)

SpecCache == Init /\ [][NextCache]_vars

\* The worker process: it subscribes handleItemCreated, items are created
\* by the API process (either mode), and on the signal its main returns:
\* redisClient.Close() runs and then eventBus.Close().
NextWorker ==
    \/ Cardinality(items) < MaxItems /\ SaveBegin(Cardinality(items) + 1, 0)
    \/ SaveInsert(TRUE)
    \/ SavePublish(TRUE)
    \/ SaveEnd(TRUE)
    \/ StartForwarder("api")
    \/ FwdClaim("api")
    \/ FwdRepublish("api", TRUE)
    \/ FwdAck("api")
    \/ ~svc.quit /\ Subscribe(1)
    \/ LibClaim(1)
    \/ LibSend(1)
    \/ LibAck(1)
    \/ HandlerStart(1)
    \/ \E ok \in BOOLEAN : HandleItemCreated(1, 1, ok)
    \/ LoopExit(1)
    \/ Quit
    \/ RedisClose
    \/ svc.redis = "closed" /\ CloseRun("w1")

SpecWorker == Init /\ [][NextWorker]_vars

\* --------------------------------------------- groups of subscriptions
\* The handlers of these workers fail at most MaxFails times in all.
SubsNext(S) ==
    \/ Publish("w1", TopicItemCreated, NoMeta, 0)
    \/ \E s \in S : Subscribe(s)
    \/ \E s \in S : Cancel(s)
    \/ \E s \in S : LibClaim(s)
    \/ \E s \in S : LibSend(s)
    \/ \E s \in S : LibAck(s)
    \/ \E s \in S : LibNack(s)
    \/ \E s \in S : LibClose(s)
    \/ \E s \in S : HandlerStart(s)
    \/ \E s \in S, ok \in BOOLEAN :
          (ok \/ fails < MaxFails) /\ HandlerReturn(s, ok)
    \/ \E s \in S : BackoffElapsed(s)
    \/ \E s \in S : BackoffCancelled(s)
    \/ \E s \in S : LoopExit(s)

\* Two workers of the same service: one consumer group.
GroupSubs == {1, 2}

NextGroup == SubsNext(GroupSubs)

SpecGroup == InitDirect /\ [][NextGroup]_vars

\* Two workers of different services: two consumer groups. The audit
\* worker's handler can fail and the worker can be shut down, while the item
\* worker keeps running with a handler that succeeds.
BroadcastSubs == {1, 3}

NextBroadcast ==
    \/ Publish("w1", TopicItemCreated, NoMeta, 0)
    \/ \E s \in BroadcastSubs : Subscribe(s)
    \/ \E s \in BroadcastSubs : LibClaim(s)
    \/ \E s \in BroadcastSubs : LibSend(s)
    \/ \E s \in BroadcastSubs : LibAck(s)
    \/ \E s \in BroadcastSubs : HandlerStart(s)
    \/ HandlerReturn(1, TRUE)
    \/ \E ok \in BOOLEAN : (ok \/ fails < MaxFails) /\ HandlerReturn(3, ok)
    \/ LibNack(3)
    \/ BackoffElapsed(3)
    \/ Cancel(3)
    \/ LibClose(3)
    \/ BackoffCancelled(3)
    \/ LoopExit(3)

SpecBroadcast == InitDirect /\ [][NextBroadcast]_vars

\* The goroutines of a subscription keep running: every step of the SQL
\* subscriber and of the dispatch loop that stays possible is taken.
SubRun(s) ==
    \/ LibClaim(s)
    \/ LibSend(s)
    \/ LibAck(s)
    \/ LibNack(s)
    \/ HandlerStart(s)
    \/ \E ok \in BOOLEAN : (ok \/ fails < MaxFails) /\ HandlerReturn(s, ok)
    \/ BackoffElapsed(s)

FairBroadcast == SpecBroadcast /\ \A s \in BroadcastSubs : WF_vars(SubRun(s))

\* Two workers of one consumer group, the second of which can crash or be
\* shut down at any moment while the first keeps running. A cancelled
\* subscriber notices ctx.Done() and rolls its transaction back.
RecoverSubs == {1, 2}

NextRecover ==
    \/ Publish("w1", TopicItemCreated, NoMeta, 0)
    \/ \E s \in RecoverSubs : Subscribe(s)
    \/ \E s \in RecoverSubs : LibClaim(s)
    \/ \E s \in RecoverSubs : LibSend(s)
    \/ \E s \in RecoverSubs : LibAck(s)
    \/ \E s \in RecoverSubs : LibNack(s)
    \/ \E s \in RecoverSubs : HandlerStart(s)
    \/ \E s \in RecoverSubs, ok \in BOOLEAN :
          (ok \/ fails < MaxFails) /\ HandlerReturn(s, ok)
    \/ \E s \in RecoverSubs : BackoffElapsed(s)
    \/ Cancel(2)
    \/ LibClose(2)
    \/ BackoffCancelled(2)
    \/ LoopExit(2)

SpecRecover == InitDirect /\ [][NextRecover]_vars

FairRecover ==
    /\ SpecRecover
    /\ WF_vars(SubRun(1))
    /\ WF_vars(SubRun(2) \/ LibClose(2))

\* ---------------------------------------------------------- health check
StatusOK == 200
StatusServiceUnavailable == 503

\* HealthHandler: a request arrives; resp starts with every field "ok".
HealthBegin ==
    /\ hPc = "idle"
    /\ hResp' = [status |-> "ok", database |-> "ok", redis |-> "ok",
                 event_bus |-> "ok"]
    /\ hPings' = <<>>
    /\ hPc' = "database"
    /\ UNCHANGED hOut
    /\ UNCHANGED <<storeVars, envVars, subVars, outboxVars>>
    /\ UNCHANGED lifeVars
    /\ UNCHANGED <<retryVars, traceVars, appVars>>

\* checks.Database.Ping(ctx): an error marks the database unreachable.
PingDatabase(ok) ==
    /\ hPc = "database"
    /\ hPings' = Append(hPings, <<"database", ok>>)
    /\ hResp' = IF ok
                THEN hResp
                ELSE [hResp EXCEPT !.status = "degraded", !.database = "unreachable"]
    /\ hPc' = "redis"
    /\ UNCHANGED hOut
    /\ UNCHANGED <<storeVars, envVars, subVars, outboxVars>>
    /\ UNCHANGED lifeVars
    /\ UNCHANGED <<retryVars, traceVars, appVars>>

\* A handler that does not probe Redis once the response is degraded.
PingRedisShortCircuit(ok) ==
    /\ hPc = "redis"
    /\ IF hResp.status = "degraded"
       THEN UNCHANGED <<hPings, hResp>>
       ELSE /\ hPings' = Append(hPings, <<"redis", ok>>)
            /\ hResp' = IF ok
                        THEN hResp
                        ELSE [hResp EXCEPT !.status = "degraded",
                                           !.redis = "unreachable"]
    /\ hPc' = "event_bus"
    /\ UNCHANGED hOut
    /\ UNCHANGED <<storeVars, envVars, subVars, outboxVars>>
    /\ UNCHANGED lifeVars
    /\ UNCHANGED <<retryVars, traceVars, appVars>>

\* checks.Redis.Ping(ctx): an error marks Redis unreachable.
PingRedis(ok) ==
    /\ hPc = "redis"
    /\ hPings' = Append(hPings, <<"redis", ok>>)
    /\ hResp' = IF ok
                THEN hResp
                ELSE [hResp EXCEPT !.status = "degraded", !.redis = "unreachable"]
    /\ hPc' = "event_bus"
    /\ UNCHANGED hOut
    /\ UNCHANGED <<storeVars, envVars, subVars, outboxVars>>
    /\ UNCHANGED lifeVars
    /\ UNCHANGED <<retryVars, traceVars, appVars>>

\* checks.EventBus.Ping(ctx), that is EventBus.Ping: q.db.PingContext; an error
\* marks the event bus unreachable.
PingEventBus(ok) ==
    /\ hPc = "event_bus"
    /\ hPings' = Append(hPings, <<"event_bus", ok>>)
    /\ hResp' = IF ok
                THEN hResp
                ELSE [hResp EXCEPT !.status = "degraded", !.event_bus = "unreachable"]
    /\ hPc' = "write"
    /\ UNCHANGED hOut
    /\ UNCHANGED <<storeVars, envVars, subVars, outboxVars>>
    /\ UNCHANGED lifeVars
    /\ UNCHANGED <<retryVars, traceVars, appVars>>

\* JSON(w, status, resp): 200 when resp.Status is "ok", else 503.
HealthRespond ==
    /\ hPc = "write"
    /\ hOut' = [code |-> IF hResp.status # "ok"
                         THEN StatusServiceUnavailable
                         ELSE StatusOK,
                body |-> hResp,
                pings |-> hPings]
    /\ hPc' = "idle"
    /\ UNCHANGED <<hResp, hPings>>
    /\ UNCHANGED <<storeVars, envVars, subVars, outboxVars>>
    /\ UNCHANGED lifeVars
    /\ UNCHANGED <<retryVars, traceVars, appVars>>

NextHealth ==
    \/ HealthBegin
    \/ \E ok \in BOOLEAN : PingDatabase(ok)
    \/ \E ok \in BOOLEAN : PingRedis(ok)
    \/ \E ok \in BOOLEAN : PingEventBus(ok)
    \/ HealthRespond

SpecHealth == Init /\ [][NextHealth]_vars

\* ------------------------------------------------------ trace propagation
\* The API process publishes under the spans of its requests, with
\* EventBus.Publish and through ItemRepository.Save; a worker handles the
\* messages. Storage does not fail here and the handler succeeds. A process
\* that configures the propagator does so when it starts, before it publishes.
NextTrace ==
    \/ nextId = 1 /\ SetTextMapPropagator
    \/ \E pm \in ProducerMetas, tr \in Traces \cup {NoTrace} :
          Publish("api", TopicItemCreated, pm, tr)
    \/ \E tr \in Traces \cup {NoTrace} : SaveBegin(1, tr)
    \/ SaveInsert(TRUE)
    \/ SavePublish(TRUE)
    \/ SaveEnd(TRUE)
    \/ Subscribe(1)
    \/ LibClaim(1)
    \/ LibSend(1)
    \/ LibAck(1)
    \/ HandlerStart(1)
    \/ HandlerReturn(1, TRUE)

SpecTrace == InitDirect /\ [][NextTrace]_vars

\* ------------------------------------------------------------- shutdown
\* A worker whose subscription context is cancelled and whose bus is then
\* closed, with messages still arriving and the handler failing at most
\* MaxFails times.
NextShutdown ==
    \/ Publish("w1", TopicItemCreated, NoMeta, 0)
    \/ closePc["w1"] = "none" /\ Subscribe(1)
    \/ Cancel(1)
    \/ LibClaim(1)
    \/ LibSend(1)
    \/ LibAck(1)
    \/ LibNack(1)
    \/ LibClose(1)
    \/ HandlerStart(1)
    \/ \E ok \in BOOLEAN : (ok \/ fails < MaxFails) /\ HandlerReturn(1, ok)
    \/ BackoffElapsed(1)
    \/ BackoffCancelled(1)
    \/ LoopExit(1)
    \/ CloseRun("w1")

SpecShutdown == InitDirect /\ [][NextShutdown]_vars

Next == NextDispatch \/ NextGroup \/ NextBroadcast \/ NextOutbox \/ NextRelay
           \/ NextReserved \/ NextClose \/ NextStart \/ NextRecover
           \/ NextTrace \/ NextShutdown \/ NextHealth \/ NextConcurrent
           \/ NextUncancelled \/ NextCache \/ NextWorker

Spec == Init /\ [][Next]_vars
\* ===================================================================
\* Properties
\* ===================================================================

\* C1 (as amended): in one consumer group a message is held by at most one
\* subscriber at a time, the group's acknowledged offset passes only messages
\* that were delivered to a subscriber of the group, and two subscribers of
\* the group both receive a message only if the subscription of one of them
\* was cancelled.
SameGroup(s1, s2) ==
    s1 # s2 /\ SubTopic(s1) = SubTopic(s2) /\ SubGroup(s1) = SubGroup(s2)

Observed(s, i) ==
    /\ Len(messages[SubTopic(s)]) >= i
    /\ messages[SubTopic(s)][i].id \in delivered[s]

C2_Broadcast ==
    \A s \in BroadcastSubs :
        \A i \in 1..MaxMsgs :
            (lib[s] # "none" /\ Len(messages[SubTopic(s)]) >= i)
               ~> (cancelled[s] \/ Observed(s, i))

C2_Witness ==
    /\ Len(messages[TopicItemCreated]) = 2
    /\ \A s \in BroadcastSubs :
          /\ ~cancelled[s]
          /\ \A i \in 1..2 : messages[TopicItemCreated][i].id \in delivered[s]

\* C3 (as amended): when the handler first returns nil on invocation k, the
\* delivery has exactly k invocations (k <= maxRetries), the loop calls Ack and
\* never Nack, nothing is sent on errCh, and once the acknowledgement is
\* committed in the store the message is never claimed again in that group.
C3_SuccessState ==
    \A s \in Subs :
        /\ okAt[s] # 0 =>
              /\ calls[s] = okAt[s]
              /\ attempt[s] = okAt[s]
              /\ okAt[s] \in 1..maxRetries
              /\ last[s].calls = okAt[s]
              /\ last[s].result = "nil"
              /\ last[s].fin = "ack"
              /\ ~last[s].sent
              /\ ackSig[s] # "nack"
        /\ lib[s] \in {"claimed", "sent"} =>
              <<SubGroup(s), cur[s].id>> \notin committed

C3_SuccessStep ==
    \A s \in Subs :
        (okAt[s] = 0 /\ okAt'[s] # 0) =>
            /\ loop'[s] = "recv"
            /\ ackSig'[s] = "ack"
            /\ errCh'[s] = errCh[s]

C4_ExhaustedStep ==
    \A s \in Subs :
        (loop[s] \in {"running", "wait"} /\ loop'[s] = "recv"
           /\ last'[s].result # "nil") =>
            /\ ackSig'[s] = "nack"
            /\ last'[s].fin = "nack"
            /\ errCh'[s] = IF errCh[s] < ErrChCap THEN errCh[s] + 1 ELSE errCh[s]
            /\ last'[s].sent = (errCh[s] < ErrChCap)
            /\ last'[s].result = "exhausted" =>
                  (calls[s] = maxRetries /\ last'[s].calls = maxRetries)
            /\ last'[s].result # "exhausted" => cancelled[s]

C4_ExhaustedNacks == [][C4_ExhaustedStep]_vars

C4_Witness ==
    /\ last[1].result = "exhausted"
    /\ last[1].calls = maxRetries
    /\ ackSig[1] = "nack"
    /\ errCh[1] = ErrChCap

\* C4 (as stated): the always failing handler is invoked exactly maxRetries
\* times for the message and the final error is on the error channel.
C4_Original ==
    \A s \in Subs :
        (last[s].result = "exhausted" /\ last[s].id = cur[s].id) =>
            /\ invocations[s] = maxRetries
            /\ last[s].fin = "nack"
            /\ last[s].sent

\* C5: when the context is cancelled before the first backoff wait is over
\* and the handler failed, the only step retryWithBackoff takes is to return
\* the cancellation error, after exactly one invocation.
C5_AbortStep ==
    \A s \in Subs :
        (cancelled[s] /\ loop[s] = "wait" /\ attempt[s] = 1) =>
            \/ (loop'[s] = "wait" /\ calls'[s] = 1)
            \/ /\ loop'[s] = "recv"
               /\ last'[s].result = "cancelled"
               /\ last'[s].calls = 1
               /\ calls'[s] = 1

C5_CancelAborts == [][C5_AbortStep]_vars

C5_Witness ==
    /\ last[1].result = "cancelled"
    /\ last[1].calls = 1
    /\ loop[1] = "recv"

\* ------------------------------------------------------------ outbox
RowIds(t) == {messages[t][j].id : j \in 1..Len(messages[t])}

Visible(id) ==
    \/ \E t \in Topics : id \in RowIds(t)
    \/ \E s \in Subs : id \in delivered[s] \/ cur[s].id = id
    \/ \E b \in Buses : fwdCur[b].id = id

\* C6: a message published through the publisher of NewTxPublisher(tx) in a
\* transaction that is rolled back is never stored on a topic, never claimed
\* by the Forwarder and never delivered to a subscriber, in direct mode and
\* in forwarder mode.
C6_RolledBackInvisible == \A id \in rolledBack : ~Visible(id)

C6_Witness ==
    /\ useForwarder[RepoBus]
    /\ saved.err = "commit"
    /\ rolledBack # {}
    /\ delivered[1] # {}

PublishTarget == PublishRow(NewTxPublisher(RepoBus), TopicItemCreated, 0, 0).topic

ItemRows(t, it) == {j \in 1..Len(messages[t]) : messages[t][j].item = it}

C8_State ==
    useForwarder[RepoBus] =>
        /\ \A t \in Topics \ {forwarderTopic} :
              \A j \in 1..Len(messages[t]) : messages[t][j].kind = "plain"
        /\ \A s \in Subs : SubTopic(s) # forwarderTopic => cur[s].kind # "envelope"
        /\ \A j \in 1..Len(tx.rows) : tx.rows[j].topic = forwarderTopic

C8_Step ==
    (useForwarder[RepoBus] /\ messages'[TopicItemCreated] # messages[TopicItemCreated]) =>
        /\ fwd[RepoBus] = "claimed"
        /\ fwd'[RepoBus] = "republished"
        /\ messages'[TopicItemCreated] =
              Append(messages[TopicItemCreated], Unwrap(fwdCur[RepoBus]))

\* C8: in forwarder mode no envelope is stored on a real topic or held by a
\* subscriber of a real topic, Publish and the transactional publisher write
\* to forwarderTopic only, and the real topic grows only by the Forwarder
\* storing the unwrapped inner message of the envelope it holds.
C8_NoEnvelopeOnRealTopic == []C8_State /\ [][C8_Step]_vars

C8_Witness ==
    /\ useForwarder[RepoBus]
    /\ \E j \in 1..Len(messages[TopicItemCreated]) : messages[TopicItemCreated][j].item > 0
    /\ \E j \in 1..Len(messages[TopicItemCreated]) : messages[TopicItemCreated][j].item = 0
    /\ lib[1] = "sent"
    /\ cur[1].item > 0

CopiesOn(t, id) == Cardinality({j \in 1..Len(messages[t]) : messages[t][j].id = id})

C9_State ==
    /\ \A id \in Ids : CopiesOn(TopicItemCreated, id) <= 1 + lostAcks[id]
    /\ \A i \in 1..offsetAcked[FwdKey] :
          CopiesOn(messages[forwarderTopic][i].dest, messages[forwarderTopic][i].id) >= 1

C9_Step ==
    /\ offsetAcked'[FwdKey] \in {offsetAcked[FwdKey], offsetAcked[FwdKey] + 1}
    /\ fails' # fails => messages' = messages

\* C9: an acknowledged envelope has its inner message on the real topic at
\* least once; the inner message is there once more for each time the
\* Forwarder stopped between republishing and acknowledging it, and not
\* otherwise; an envelope is acknowledged at most once and a failed
\* republish stores nothing.
C9_AtLeastOnce == []C9_State /\ [][C9_Step]_vars

C9_Witness ==
    \E id \in Ids :
        /\ CopiesOn(TopicItemCreated, id) = 2
        /\ lostAcks[id] = 1
        /\ offsetAcked[FwdKey] >= 1
        /\ messages[forwarderTopic][1].id = id

\* C9 as stated: the inner message of an envelope is on its real topic at
\* most once, whatever happens to the Forwarder.
C9_Original == \A id \in Ids : CopiesOn(TopicItemCreated, id) <= 1

StoredOnDest(env) ==
    \E j \in 1..Len(messages[env.dest]) : messages[env.dest][j] = Unwrap(env)

Relayed(i) ==
    /\ i <= Len(messages[forwarderTopic])
    /\ StoredOnDest(messages[forwarderTopic][i])

C10_State ==
    \A i \in 1..offsetAcked[FwdKey] : StoredOnDest(messages[forwarderTopic][i])

C10_Step ==
    fails' # fails =>
        /\ offsetAcked' = offsetAcked
        /\ fwd' = fwd
        /\ claim'[FwdKey]

C10_Live ==
    \A i \in Ids :
        (Len(messages[forwarderTopic]) >= i) ~> (Relayed(i) \/ fwd[RepoBus] = "stopped")

\* C10: an envelope is acknowledged only after its inner message is stored
\* on the real topic; a failed republish leaves the envelope claimed and
\* unacknowledged; and every envelope stored on forwarderTopic is eventually
\* relayed unless the Forwarder is stopped.
C10_NoSilentLoss == []C10_State /\ [][C10_Step]_vars /\ C10_Live

C10_Witness ==
    /\ fails > 0
    /\ Len(messages[forwarderTopic]) >= 2
    /\ offsetAcked[FwdKey] = Len(messages[forwarderTopic])
    /\ fwd[RepoBus] = "idle"

\* --------------------------------------------------- the reserved topic
\* C11: no handler registered through EventBus.Subscribe is ever invoked
\* with an Outbox Envelope, whatever topic it subscribed to.
C11_Original ==
    \A s \in Subs : loop[s] = "running" => cur[s].kind # "envelope"

\* C12: no subscription of an application bus uses the consumer group of the
\* Forwarder, whatever the service name of the bus, and so no application
\* subscriber moves the delivery position of the Forwarder.
C12_Original ==
    /\ \A s \in Subs : lib[s] # "none" => SubGroup(s) # forwarderGroup
    /\ \A i \in 1..offsetAcked[FwdKey] : StoredOnDest(messages[forwarderTopic][i])

\* ---------------------------------------------------------------- Close
IsPrefix(p, q) == Len(p) <= Len(q) /\ \A i \in 1..Len(p) : p[i] = q[i]

CloseOrder == <<"subscriber", "forwarder", "wait", "publisher", "db">>

CloseOrderNoFwd == <<"subscriber", "wait", "publisher", "db">>

C13_State ==
    \A b \in Buses :
        /\ IsPrefix(closeLog[b], CloseOrder) \/ IsPrefix(closeLog[b], CloseOrderNoFwd)
        /\ closeRes[b] = "nil" =>
              closeLog[b] \in {CloseOrder, CloseOrderNoFwd}

C13_Step ==
    \A b \in Buses :
        /\ Len(closeLog'[b]) \in {Len(closeLog[b]), Len(closeLog[b]) + 1}
        /\ (closeLog'[b] # closeLog[b] /\ closeLog'[b] = <<"subscriber", "wait">>)
              => fwd[b] = "off"
        /\ (closeLog'[b] # closeLog[b] /\ closeLog'[b] = <<"subscriber", "forwarder">>)
              => fwd[b] # "off"

\* C13: the steps a Close call attempts are, in this order and one at a
\* time, subscriber, forwarder (exactly when a forwarder was started), wait,
\* publisher, database; a Close that returns nil attempted all of them.
C13_CloseOrdered == []C13_State /\ [][C13_Step]_vars

C13_Witness ==
    /\ closeLog["api"] = CloseOrder
    /\ closeLog["w1"] = CloseOrderNoFwd
    /\ timedOut["w1"]

InLog(b, step) == \E i \in 1..Len(closeLog[b]) : closeLog[b][i] = step

\* C14: every Close call that returned attempted to close the database
\* connection, whatever errors its earlier steps met.
C14_Original ==
    \A b \in Buses : closePc[b] = "done" => InLog(b, "db")

C16_State ==
    \A b \in Buses :
        (timedOut[b] /\ closePc[b] = "done") =>
            /\ InLog(b, "publisher")
            /\ closeRes[b] \in {"nil", "publisher", "db"}
            /\ closeRes[b] = "nil" => InLog(b, "db")

\* C16: a Close call that was started returns, whether or not the handlers
\* in flight ever finish; after the shutdown timeout it goes on to close the
\* publisher and the database, and its result is that of these two steps.
C16_CloseTerminates ==
    /\ []C16_State
    /\ \A b \in CloseBuses : (closePc[b] # "none") ~> (closePc[b] = "done")

C16_Witness ==
    /\ timedOut["w1"]
    /\ closeRes["w1"] = "nil"
    /\ loop[1] = "running"

\* ------------------------------------------------------- StartForwarder
C17_State ==
    \A b \in Buses :
        ~useForwarder[b] =>
            /\ fwd[b] = "off"
            /\ startPc[b] = "none"
            /\ startRes[b] \in {"none", "not_forwarder"}
            /\ fwdCur[b] = NoMsg

C17_Step ==
    \A b \in Buses :
        (~useForwarder[b] /\ startRes'[b] # startRes[b]) =>
            /\ startRes'[b] = "not_forwarder"
            /\ UNCHANGED <<storeVars, fwd, fwdCur, startPc, subVars>>

\* C17: StartForwarder on a bus that is not in forwarder mode returns the
\* error and leaves everything as it was: no forwarder is recorded or
\* started and the store is not touched.
C17_NotForwarderNoEffect == []C17_State /\ [][C17_Step]_vars

C17_Witness ==
    /\ ~useForwarder["api"]
    /\ startRes["api"] = "not_forwarder"
    /\ Len(messages[TopicItemCreated]) > 0

StartCallStep(b) ==
    /\ startPc[b] = "none"
    /\ startRes'[b] # startRes[b] \/ startPc'[b] # startPc[b]

C18_Step ==
    \A b \in Buses :
        /\ (fwd[b] # "off" /\ StartCallStep(b)) =>
              /\ startRes'[b] = "already"
              /\ fwd'[b] = fwd[b]
              /\ startPc'[b] = "none"
        /\ fwd'[b] = "starting" => fwd[b] \in {"off", "starting"}
        /\ fwd'[b] = "off" => fwd[b] = "off"

\* C18: once a StartForwarder call has recorded a forwarder on a bus, every
\* later call on that bus returns the error and starts nothing: the task of
\* fwd.Run is started at most once per bus.
C18_StartedOnce == [][C18_Step]_vars

C18_Witness ==
    /\ startRes["api"] = "already"
    /\ fwd["api"] = "claimed"

HasRun(b) == fwd[b] \in {"idle", "claimed", "republished", "stopped"}

C19_State ==
    \A b \in Buses : startRes[b] = "nil" => HasRun(b)

C19_Step ==
    \A b \in Buses :
        (startRes'[b] = "nil" /\ startRes[b] # "nil") =>
            /\ startPc[b] = "waiting"
            /\ HasRun(b)

\* C19: StartForwarder returns nil only in a state in which the Forwarder
\* has signalled that it is running; while the signal is missing the call
\* waits or returns the error of the cancelled context.
C19_NilAfterRunning == []C19_State /\ [][C19_Step]_vars

C19_Witness ==
    /\ startRes["api"] = "nil"
    /\ fwd["api"] = "republished"

\* ---------------------------------------------------------- error channel
C20_State ==
    \A s \in Subs :
        /\ errCh[s] <= ErrChCap
        /\ (loop[s] = "running" /\ errCh[s] = ErrChCap) =>
              /\ ENABLED HandlerReturn(s, FALSE)
              /\ ENABLED HandlerReturn(s, TRUE)
        /\ (loop[s] = "wait" /\ cancelled[s]) => ENABLED BackoffCancelled(s)

C20_Step ==
    \A s \in Subs :
        (errCh[s] = ErrChCap /\ last'[s] # last[s] /\ last'[s].result # "nil") =>
            /\ errCh'[s] = ErrChCap
            /\ ~last'[s].sent
            /\ ackSig'[s] = "nack"
            /\ loop'[s] = "recv"

\* C20: errCh never holds more than ErrChCap errors; with errCh full the
\* return of the handler and the end of retryWithBackoff are never blocked,
\* a final error is then dropped, the message is Nacked and the dispatch
\* loop is back at its receive.
C20_ErrChNeverBlocks == []C20_State /\ [][C20_Step]_vars

C20_Witness ==
    /\ errCh[1] = ErrChCap
    /\ last[1].result = "exhausted"
    /\ ~last[1].sent
    /\ loop[1] = "running"
    /\ lib[1] = "sent"

\* C21: a message claimed but not acknowledged (its consumer was cancelled, or
\* the loop called Nack) becomes claimable again: every stored message is
\* eventually acknowledged in the group of a subscription that stays active,
\* the handler failing only a bounded number of times.
C21_NoPermanentLoss ==
    \A i \in 1..MaxMsgs :
        (lib[1] # "none" /\ Len(messages[SubTopic(1)]) >= i)
           ~> (offsetAcked[Key(1)] >= i)

C21_Witness ==
    /\ cancelled[2]
    /\ lib[2] = "closed"
    /\ 1 \in delivered[2]
    /\ <<SubGroup(1), 1>> \in committed
    /\ last[1].id = 1
    /\ last[1].result = "nil"
    /\ fails > 0

\* C22 (as stated): two subscribers of one consumer group never have a handler
\* invocation for the same message in progress at the same time.
C22_Original ==
    \A s1, s2 \in Subs :
        SameGroup(s1, s2) =>
           ~(/\ loop[s1] = "running"
             /\ loop[s2] = "running"
             /\ cur[s1].id = cur[s2].id)

C24_State ==
    \A s \in Subs :
        (loop[s] = "recv" /\ retErr[s].kind = "exhausted") =>
           /\ retErr[s].wraps = calls[s]
           /\ retErr[s].wraps = last[s].calls
           /\ retErr[s].count = maxRetries

C24_Step ==
    \A s \in Subs :
        (loop[s] \in {"running", "wait"} /\ loop'[s] = "recv") =>
           /\ retErr'[s].kind = "nil" <=> okAt'[s] # 0
           /\ retErr'[s].kind = "nil" <=> last'[s].result = "nil"
           /\ retErr'[s].kind = "exhausted" => calls[s] = maxRetries

C24_LastErrorWrapped == []C24_State /\ [][C24_Step]_vars

C24_Witness ==
    /\ loop[1] = "recv"
    /\ retErr[1] = Exhausted(maxRetries)
    /\ last[1].calls = maxRetries
    /\ last[1].fin = "nack"

\* C25 (as stated): for a message published with EventBus.Publish under an
\* active trace, the trace restored from its metadata in Subscribe is the
\* trace that was active at publish time.
InHandler(s) == loop[s] \in {"call", "running", "wait"} /\ cur[s].id # 0

C25_Original ==
    \A s \in Subs :
        (/\ InHandler(s)
         /\ origin[cur[s].id].via = "publish"
         /\ origin[cur[s].id].trace # NoTrace) =>
            msgTrace[s] = origin[cur[s].id].trace

\* C28 (as amended): a stored message and the message a handler is given have
\* the identifier, the payload and every metadata entry of the message the
\* producer passed to the bus, except the trace-propagation entry
\* (traceparent), which EventBus.Publish sets to the trace context of its
\* caller, replacing a value the producer had set; the transactional publish
\* path changes no entry.
Kept(m) ==
    LET o == origin[m.id]
    IN /\ o.via # "none"
       /\ m.item = o.item
       /\ m.meta.event_id = o.meta.event_id
       /\ m.meta.event_version = o.meta.event_version
       /\ m.meta.traceparent \in {o.meta.traceparent, Format(o.trace)}
       /\ m.meta.traceparent # o.meta.traceparent =>
             o.via = "publish" /\ o.trace # NoTrace

C28_KeptButTrace ==
    /\ \A t \in Topics :
          \A i \in 1..Len(messages[t]) : Kept(messages[t][i])
    /\ \A s \in Subs : InHandler(s) => Kept(cur[s])

C28_Witness ==
    /\ loop[1] = "running"
    /\ cur[1].id # 0
    /\ origin[cur[1].id].meta = [NoMeta EXCEPT !.event_id = 1]
    /\ cur[1].meta = [NoMeta EXCEPT !.event_id = 1, !.traceparent = Format(2)]

\* C28 (as stated): every metadata entry the producer set reaches the handler
\* unchanged.
C28_Original ==
    \A s \in Subs :
        InHandler(s) =>
           LET o == origin[cur[s].id]
           IN /\ o.meta.event_id # 0 => cur[s].meta.event_id = o.meta.event_id
              /\ o.meta.traceparent # <<>> =>
                    cur[s].meta.traceparent = o.meta.traceparent

\* C30 (as stated): a message published through a publisher obtained from
\* NewTxPublisher under an active trace reaches its handler with that trace
\* context in its metadata.
C30_Original ==
    \A s \in Subs :
        (/\ InHandler(s)
         /\ origin[cur[s].id].via = "tx"
         /\ origin[cur[s].id].trace # NoTrace) =>
            /\ cur[s].meta.traceparent = Format(origin[cur[s].id].trace)
            /\ msgTrace[s] = origin[cur[s].id].trace

\* C26: once its context is cancelled a subscription claims no new message;
\* the cancellation leaves a handler invocation in progress as it is, and the
\* invocation ends only by the handler's own return; while it runs, the wait
\* of Close is left only by the shutdown timeout.
C26_Step ==
    /\ \A s \in Subs :
          /\ (cancelled[s] /\ lib[s] = "idle") => lib'[s] # "claimed"
          /\ (~cancelled[s] /\ cancelled'[s]) =>
                /\ loop'[s] = loop[s]
                /\ calls'[s] = calls[s]
                /\ attempt'[s] = attempt[s]
                /\ cur'[s] = cur[s]
          /\ (loop[s] = "running" /\ loop'[s] # "running") =>
                \E ok \in BOOLEAN : HandlerReturn(s, ok)
    /\ \A b \in Buses :
          (/\ closePc[b] = "wait"
           /\ closePc'[b] # "wait"
           /\ \E s \in BusSubs(b) : loop[s] = "running") => timedOut'[b]

C26_CancelKeepsHandler == [][C26_Step]_vars

C26_Witness ==
    /\ cancelled[1]
    /\ lib[1] = "closed"
    /\ loop[1] = "running"
    /\ closePc["w1"] = "wait"
    /\ offsetAcked[Key(1)] < Len(messages[TopicItemCreated])

\* C27: a Publish call makes exactly one write through the publisher; it
\* returns nil exactly when the write stored the message, and on a storage
\* error it stores nothing and returns the error wrapped with the operation
\* and the topic it was asked to publish to.
PublishStep == nextId' = nextId + 1 /\ tx' = tx

RowCount(m) == Len(m[TopicItemCreated]) + Len(m[forwarderTopic])

C27_State == \A b \in Buses : pubCall[b].writes <= 1

C27_Step ==
    PublishStep =>
       \E b \in Buses :
          /\ \A b2 \in Buses \ {b} :
                pubErr'[b2] = pubErr[b2] /\ pubCall'[b2] = pubCall[b2]
          /\ pubCall'[b].writes = 1
          /\ pubErr'[b] \in {"nil", "error"}
          /\ pubErr'[b] = "nil" <=> pubCall'[b].err = <<>>
          /\ pubErr'[b] = "nil" <=> RowCount(messages') = RowCount(messages) + 1
          /\ pubErr'[b] = "error" =>
                /\ messages' = messages
                /\ pubCall'[b].err[1] = "events: publish to"
                /\ pubCall'[b].err[2] = TopicItemCreated
                /\ pubCall'[b].err[3] = "store error"

C27_PublishOnce == []C27_State /\ [][C27_Step]_vars

C27_Witness ==
    /\ pubErr["w1"] = "error"
    /\ pubCall["w1"] = [writes |-> 1, err |-> PublishErr(TopicItemCreated)]
    /\ messages[TopicItemCreated] = <<>>
    /\ nextId = 2

\* C29: every answer of the health endpoint follows a Ping of the database,
\* of Redis and of the event bus, in that order and whatever the earlier
\* Pings returned; it is 200 with status "ok" exactly when all three Pings
\* succeeded, else 503 with status "degraded", and a dependency is marked
\* "unreachable" exactly when its Ping failed.
Mark(ok) == IF ok THEN "ok" ELSE "unreachable"

C29_Health ==
    hOut # NoOut =>
       /\ Len(hOut.pings) = 3
       /\ hOut.pings[1][1] = "database"
       /\ hOut.pings[2][1] = "redis"
       /\ hOut.pings[3][1] = "event_bus"
       /\ hOut.code \in {StatusOK, StatusServiceUnavailable}
       /\ hOut.code = StatusOK <=> \A i \in 1..3 : hOut.pings[i][2]
       /\ hOut.code = StatusOK <=> hOut.body.status = "ok"
       /\ hOut.code = StatusServiceUnavailable <=> hOut.body.status = "degraded"
       /\ hOut.body.database = Mark(hOut.pings[1][2])
       /\ hOut.body.redis = Mark(hOut.pings[2][2])
       /\ hOut.body.event_bus = Mark(hOut.pings[3][2])

C29_Witness ==
    /\ hPc = "idle"
    /\ hOut.code = StatusServiceUnavailable
    /\ hOut.body = [status |-> "degraded", database |-> "unreachable",
                     redis |-> "ok", event_bus |-> "unreachable"]

\* C31: a message the dispatch loop holds has had neither Ack nor Nack
\* called on it; the step in which the loop lets go of it is the one call
\* of Ack or of Nack on it, Ack exactly when retryWithBackoff returned nil;
\* outside of that step no Ack or Nack is called, so the call is made once
\* and before the loop takes its next message.
Holding(s) == loop[s] \in {"call", "running", "wait"}

C31_State == \A s \in Subs : Holding(s) => ackSig[s] = "none"

C31_Step ==
    \A s \in Subs :
        /\ (Holding(s) /\ ~Holding(s)') =>
              /\ ackSig'[s] \in {"ack", "nack"}
              /\ ackSig'[s] = "ack" <=> retErr'[s] = NilErr
              /\ ackSig'[s] = "nack" <=> retErr'[s].kind \in {"exhausted", "cancelled"}
              /\ last'[s].id = cur[s].id
              /\ last'[s].fin = ackSig'[s]
              /\ loop'[s] = "recv"
        /\ (Holding(s) /\ Holding(s)') =>
              /\ ackSig'[s] = "none"
              /\ cur'[s] = cur[s]
        /\ ~Holding(s) => ackSig'[s] \in {ackSig[s], "none"}
        /\ (~Holding(s) /\ Holding(s)') =>
              /\ loop[s] = "recv"
              /\ delivered[s] # {} => last[s].fin \in {"ack", "nack"}

C31_FinalisedOnce == []C31_State /\ [][C31_Step]_vars

C31_Witness ==
    /\ Holding(1)
    /\ last[1].fin = "nack"
    /\ last[1].id = 2
    /\ cur[1].id = 2
    /\ <<SubGroup(1), 1>> \in loopAcked

\* C32: the handler of a subscription is entered only from the loop's call
\* position, for the message the loop holds, as invocation number `attempt`
\* of that message (every earlier invocation has returned); the loop takes
\* a message only at its receive, after the message before it returned nil,
\* used up its maxRetries attempts or was cancelled in a wait, and was
\* Acked or Nacked.
C32_State ==
    \A s \in Subs :
        /\ loop[s] \in {"running", "wait"} => calls[s] = attempt[s]
        /\ loop[s] = "call" => calls[s] = attempt[s] - 1
        /\ Holding(s) => attempt[s] \in 1..maxRetries

C32_Step ==
    \A s \in Subs :
        /\ calls'[s] > calls[s] =>
              /\ loop[s] = "call"
              /\ loop'[s] = "running"
              /\ cur'[s] = cur[s]
              /\ calls'[s] = attempt[s]
              /\ ackSig[s] = "none"
        /\ Holding(s) => cur'[s] = cur[s]
        /\ (~Holding(s) /\ Holding(s)') =>
              /\ loop[s] = "recv"
              /\ loop'[s] = "call"
              /\ calls'[s] = 0
              /\ attempt'[s] = 1
              /\ \/ last[s] = NoLast
                 \/ /\ last[s].result = "nil"
                    /\ last[s].fin = "ack"
                 \/ /\ last[s].result = "exhausted"
                    /\ last[s].calls = maxRetries
                    /\ last[s].fin = "nack"
                 \/ /\ last[s].result = "cancelled"
                    /\ last[s].calls < maxRetries
                    /\ last[s].fin = "nack"

C32_NoOverlap == []C32_State /\ [][C32_Step]_vars

C32_Witness ==
    /\ loop[1] = "running"
    /\ cur[1].id = 2
    /\ calls[1] = 1
    /\ last[1].id = 1
    /\ last[1].result = "nil"
    /\ last[1].calls = maxRetries
    /\ <<SubGroup(1), 1>> \in committed

\* C33: a backoff wait that ends under a cancelled context ends with
\* retryWithBackoff returning ctx.Err(); the loop calls Nack and not Ack,
\* the acknowledged offset stays where it was, and the error goes to errCh
\* unless errCh is full. A Nacked message is still the next row of its
\* (topic, group).
C33_State ==
    \A s \in Subs :
        ackSig[s] = "nack" =>
           /\ offsetAcked[Key(s)] < Len(messages[SubTopic(s)])
           /\ messages[SubTopic(s)][offsetAcked[Key(s)] + 1].id = cur[s].id
           /\ <<SubGroup(s), cur[s].id>> \notin committed

C33_Step ==
    \A s \in Subs :
        (loop[s] = "wait" /\ cancelled[s] /\ loop'[s] # "wait") =>
           /\ loop'[s] = "recv"
           /\ retErr'[s] = CtxErr
           /\ ackSig'[s] = "nack"
           /\ last'[s].id = cur[s].id
           /\ last'[s].result = "cancelled"
           /\ last'[s].fin = "nack"
           /\ loopAcked' = loopAcked
           /\ offsetAcked' = offsetAcked
           /\ calls'[s] = calls[s]
           /\ last'[s].sent <=> errCh[s] < ErrChCap
           /\ errCh'[s] = IF errCh[s] < ErrChCap THEN errCh[s] + 1 ELSE errCh[s]

C33_CancelledWaitNacks == []C33_State /\ [][C33_Step]_vars

C33_Witness ==
    /\ last[1].result = "cancelled"
    /\ last[1].calls = 2
    /\ last[1].sent
    /\ ackSig[1] = "nack"
    /\ errCh[1] > 0
    /\ lib[1] = "closed"
    /\ loop[1] = "done"

\* C34 (as stated): once Close has returned and its wait did not end by the
\* timeout, the error channel of every subscription of the bus is closed
\* (its dispatch goroutine has run its deferred close(errCh)).
C34_Original ==
    \A b \in Buses :
        (closePc[b] = "done" /\ ~timedOut[b]) =>
            \A s \in BusSubs(b) : lib[s] # "none" => loop[s] = "done"

\* C35 (as stated): of the StartForwarder calls made on a forwarder-mode
\* bus, at most one has started a goroutine of fwd.Run and at most one has
\* returned nil.
C35_Original ==
    \A b \in Buses :
        useForwarder[b] =>
           /\ Cardinality({c \in Callers : starts[c].run # "none"}) <= 1
           /\ Cardinality({c \in Callers : starts[c].res = "nil"}) <= 1

\* C36 (as stated): after a StartForwarder call that returned an error of
\* its own making (a creation error, or the context cancelled in the select)
\* no forwarder is recorded on the bus, so the next call is not answered
\* with "already started".
C36_Original ==
    \A b \in Buses :
        (startPc[b] = "none" /\ startRes[b] \in {"create", "cancelled"}) =>
            fwd[b] = "off"

\* C37 (as stated): a StartForwarder call that waits in its select
\* eventually returns, although its context is never cancelled.
C37_Original ==
    \A b \in Buses : (startPc[b] = "waiting") ~> (startPc[b] = "none")

\* C38 (as stated): no GetByID that began after Delete of the item had
\* returned nil returns the item.
C38_Original == ~svc.stale

\* C39 (as stated): while the dispatch loop of the worker holds a message
\* (its handler is about to run, runs or is retried) the Redis client is
\* open.
C39_Original ==
    \A s \in BusSubs("w1") : Holding(s) => svc.redis = "open"

====
